---- MODULE Spec2Model ----
(***************************************************************************)
(* Sensor volumes: the three entity synchronizers (ConicSensorVisualizer,  *)
(* CustomPatternSensorVisualizer, RectangularSensorVisualizer), the        *)
(* boundary samplers they drive (computeDirections, updateDirections) and  *)
(* the volume primitive (CustomSensorVolume, RectangularPyramidSensor-     *)
(* Volume) whose parameters they set.                                      *)
(*                                                                         *)
(* Angles are integers in millidegrees.  Objects the code allocates        *)
(* (primitives, vertex arrays, pick ids) are numbered in allocation order. *)
(***************************************************************************)
EXTENDS Integers, Sequences, FiniteSets, TLC

VARIABLES
    kind,                 \* which of the three synchronizers this one is
    entitiesToVisualize,  \* this._entitiesToVisualize: ids of the tracked entities
    hash,                 \* this._hash: entity id -> SyncEntry
    prims,                \* the primitive objects this synchronizer allocated
    primitives,           \* scene.primitives: the render registry
    destroyPrimitives,    \* scene.primitives.destroyPrimitives
    destroyed,            \* the synchronizer's destroy() has run
    last,                 \* the call that produced this state, with its arguments
    watch,                \* per entity: added / removed since, with no visible tick between
    listeners,            \* entityCollection.collectionChanged: the listeners it holds
    gpu                   \* render-side state of the primitive SpecPrim drives

vars == <<kind, entitiesToVisualize, hash, prims, primitives, destroyPrimitives,
          destroyed, last, watch, listeners, gpu>>

(***************************************************************************)
(* Bounds of the model.                                                    *)
(***************************************************************************)
MaxGen == 2

\* The entity identities of the collection the synchronizer observes.
Ids == {1, 2}
Kinds == {"conic", "custom", "rect"}
PrimIds == Ids \X (1..MaxGen)

Undefined == "undefined"
None == <<>>
Some(v) == <<v>>

(***************************************************************************)
(* Angles.                                                                 *)
(*                                                                         *)
(* An angle is the double the code holds.  It is written as a whole number: *)
(* 5000 per millidegree for the double nearest to that many millidegrees,  *)
(* plus the distance of the double from that one in units of 2^-56 radian. *)
(* The order and the equality of the doubles are the ones of the numbers.  *)
(***************************************************************************)
Milli(m) == m * 5000
Deg(d) == Milli(d * 1000)
angleStep == Deg(2)
TWO_PI == Deg(360)
PI == Deg(180)
PI_OVER_TWO == Deg(90)

Spherical(clock, cone) == [clock |-> clock, cone |-> cone, magnitude |-> 1]

assignSpherical(index, array, clock, cone) ==
    IF index <= Len(array)
    THEN [array EXCEPT ![index] = Spherical(clock, cone)]
    ELSE Append(array, Spherical(clock, cone))

\* What IEEE-754 addition rounds off: for the doubles a that the sweeps of the
\* model's clock limits reach, the pairs <<a, (a + angleStep) rounded - a - angleStep>>
\* and <<a, (a - angleStep) rounded - a + angleStep>>, where they are not zero.
PlusRoundOffs ==
    { <<50000000, 0 - 2>>, <<69999998, 2>>, <<110000000, 0 - 4>>, <<139999996, 4>>,
      <<170000000, 8>>, <<190000008, 8>>, <<210000016, 8>>, <<240000024, 8>>, <<260000032, 8>>,
      <<280000040, 0 - 8>>, <<290000032, 16>>, <<340000048, 16>>, <<380000064, 16>>,
      <<430000080, 16>>, <<480000096, 16>>, <<520000112, 16>>, <<590000128, 32>>,
      <<680000160, 32>>, <<770000192, 32>>, <<860000224, 32>>, <<960000256, 32>>,
      <<1050000288, 32>>, <<1150000320, 0 - 64>>, <<1170000256, 0 - 64>>,
      <<1200000192, 0 - 64>>, <<1220000128, 0 - 64>>, <<1240000064, 0 - 64>>,
      <<1260000000, 0 - 64>>, <<1289999936, 0 - 64>>, <<1309999872, 0 - 64>>,
      <<1329999808, 0 - 64>>, <<1349999744, 0 - 64>>, <<1379999680, 0 - 64>>,
      <<1399999616, 0 - 64>>, <<1419999552, 0 - 64>>, <<1439999488, 0 - 64>>,
      <<1469999424, 0 - 64>>, <<1489999360, 0 - 64>>, <<1509999296, 0 - 64>>,
      <<1529999232, 0 - 64>>, <<1559999168, 0 - 64>>, <<1579999104, 0 - 64>>,
      <<1599999040, 0 - 64>>, <<1619998976, 0 - 64>>, <<1649998912, 0 - 64>>,
      <<1669998848, 0 - 64>>, <<1689998784, 0 - 64>>, <<1709998720, 0 - 64>>,
      <<1739998656, 0 - 64>>, <<1759998592, 0 - 64>>, <<1779998528, 0 - 64>>,
      <<1799998464, 0 - 64>> }

MinusRoundOffs ==
    { <<30000000, 1>>, <<30001498, 1>>, <<60001496, 2>>, <<120001492, 4>>, <<150001496, 0 - 4>>,
      <<180001504, 0 - 8>>, <<200001512, 0 - 8>>, <<220001520, 0 - 8>>, <<250001528, 0 - 8>>,
      <<270001536, 0 - 8>>, <<300001552, 0 - 16>>, <<350001568, 0 - 16>>, <<390001584, 0 - 16>>,
      <<440001600, 0 - 16>>, <<490001616, 0 - 16>>, <<530001632, 0 - 16>>,
      <<600001664, 0 - 32>>, <<690001696, 0 - 32>>, <<780001728, 0 - 32>>,
      <<870001760, 0 - 32>>, <<970001792, 0 - 32>>, <<1060001824, 0 - 32>>,
      <<1150001856, 0 - 32>>, <<1160001792, 64>>, <<1180001728, 64>>, <<1210001664, 64>>,
      <<1230001600, 64>>, <<1250001536, 64>>, <<1270001472, 64>>, <<1300001408, 64>>,
      <<1320001344, 64>>, <<1340001280, 64>>, <<1360001216, 64>>, <<1390001152, 64>>,
      <<1410001088, 64>>, <<1430001024, 64>>, <<1450000960, 64>>, <<1480000896, 64>>,
      <<1500000832, 64>>, <<1520000768, 64>>, <<1540000704, 64>>, <<1570000640, 64>>,
      <<1590000576, 64>>, <<1610000512, 64>>, <<1630000448, 64>>, <<1660000384, 64>>,
      <<1680000320, 64>>, <<1700000256, 64>>, <<1720000192, 64>>, <<1750000128, 64>>,
      <<1770000064, 64>>, <<1790000000, 64>> }

RoundOff(table, a) ==
    IF \E entry \in table : entry[1] = a
    THEN (CHOOSE entry \in table : entry[1] = a)[2]
    ELSE 0

\* angle += angleStep
Plus(angle) == angle + angleStep + RoundOff(PlusRoundOffs, angle)

\* angle -= angleStep
Minus(angle) == angle - angleStep + RoundOff(MinusRoundOffs, angle)

\* The doubles angle, angle + angleStep, ... that n additions in a row run through;
\* the run is split in halves to keep the evaluation shallow.
RECURSIVE Rising(_, _)
Rising(angle, n) ==
    IF n = 0 THEN <<>>
    ELSE IF n = 1 THEN <<angle>>
    ELSE LET half == n \div 2
             low == Rising(angle, half)
         IN  low \o Rising(Plus(low[half]), n - half)

RECURSIVE Falling(_, _)
Falling(angle, n) ==
    IF n = 0 THEN <<>>
    ELSE IF n = 1 THEN <<angle>>
    ELSE LET half == n \div 2
             high == Falling(angle, half)
         IN  high \o Falling(Minus(high[half]), n - half)

\* a number of steps that takes angle from one limit past the other
Reach(from, to) == IF from < to THEN (to - from) \div angleStep + 2 ELSE 0

\* for (angle = from; angle < to; angle += angleStep): the angles the body sees
SweepUp(from, to) == SelectSeq(Rising(from, Reach(from, to)), LAMBDA angle : angle < to)

\* for (angle = from; angle > to; angle -= angleStep): the angles the body sees
SweepDown(from, to) == SelectSeq(Falling(from, Reach(to, from)), LAMBDA angle : angle > to)

\* assignSpherical(i++, directions, ...) for each of the samples, from index 0 on:
\* the array keeps what it held beyond them
Overwrite(array, samples) ==
    samples \o SubSeq(array, Len(samples) + 1, Len(array))

Samples(angles, cone) == [k \in 1..Len(angles) |-> Spherical(angles[k], cone)]

\* Assigned, without the sample that closes the outer sweep at the maximum
AssignedUnclosed(minimumClockAngle, maximumClockAngle, innerHalfAngle, outerHalfAngle) ==
    IF minimumClockAngle = 0 /\ maximumClockAngle = TWO_PI
    THEN Samples(SweepUp(0, TWO_PI), outerHalfAngle)
    ELSE Samples(SweepUp(minimumClockAngle, maximumClockAngle), outerHalfAngle)
         \o (IF innerHalfAngle # 0
             THEN Samples(SweepDown(maximumClockAngle, minimumClockAngle), innerHalfAngle)
                  \o << Spherical(minimumClockAngle, innerHalfAngle) >>
             ELSE << Spherical(maximumClockAngle, 0) >>)

\* the samples computeDirections assigns, in order
Assigned(minimumClockAngle, maximumClockAngle, innerHalfAngle, outerHalfAngle) ==
    IF minimumClockAngle = 0 /\ maximumClockAngle = TWO_PI
    THEN Samples(SweepUp(0, TWO_PI), outerHalfAngle)
    ELSE Samples(SweepUp(minimumClockAngle, maximumClockAngle), outerHalfAngle)
         \o << Spherical(maximumClockAngle, outerHalfAngle) >>
         \o (IF innerHalfAngle # 0
             THEN Samples(SweepDown(maximumClockAngle, minimumClockAngle), innerHalfAngle)
                  \o << Spherical(minimumClockAngle, innerHalfAngle) >>
             ELSE << Spherical(maximumClockAngle, 0) >>)

\* computeDirections, without directions.length = i
computeDirectionsUncut(directions, minimumClockAngle, maximumClockAngle, innerHalfAngle, outerHalfAngle) ==
    Overwrite(directions, Assigned(minimumClockAngle, maximumClockAngle,
                                   innerHalfAngle, outerHalfAngle))

\* The array computeDirections leaves in primitive.directions: the samples are
\* written over the array, which is then cut to their number.
computeDirections(directions, minimumClockAngle, maximumClockAngle, innerHalfAngle, outerHalfAngle) ==
    LET samples == Assigned(minimumClockAngle, maximumClockAngle, innerHalfAngle, outerHalfAngle)
    IN  SubSeq(Overwrite(directions, samples), 1, Len(samples))

(***************************************************************************)
(* Rectangular sampler.  tan and atan are tabulated for the half-angles    *)
(* the model uses: RectTheta(x, y) = atan(tan x' / tan y') and             *)
(* RectCone(x, y) = atan(sqrt(tan^2 x' + tan^2 y')), x' = min(x, 89 deg),  *)
(* rounded to the millidegree.                                             *)
(***************************************************************************)
TangentCap == Deg(89)
Min(a, b) == IF a < b THEN a ELSE b

RectTheta(x, y) ==
    LET cx == Min(x, TangentCap)
        cy == Min(y, TangentCap)
    IN  CASE cx = cy -> Milli(45000)
          [] cx = Deg(30) /\ cy = Deg(45) -> Milli(30000)
          [] cx = Deg(45) /\ cy = Deg(30) -> Milli(60000)
          [] cx = Deg(30) /\ cy = Deg(89) -> Milli(577)
          [] cx = Deg(89) /\ cy = Deg(30) -> Milli(89423)
          [] cx = Deg(45) /\ cy = Deg(89) -> Milli(1000)
          [] cx = Deg(89) /\ cy = Deg(45) -> Milli(89000)

RectCone(x, y) ==
    LET cx == Min(x, TangentCap)
        cy == Min(y, TangentCap)
        lo == Min(cx, cy)
        hi == IF cx < cy THEN cy ELSE cx
    IN  CASE lo = Deg(30) /\ hi = Deg(30) -> Milli(39232)
          [] lo = Deg(30) /\ hi = Deg(45) -> Milli(49107)
          [] lo = Deg(45) /\ hi = Deg(45) -> Milli(54736)
          [] lo = Deg(30) /\ hi = Deg(89) -> Milli(89000)
          [] lo = Deg(45) /\ hi = Deg(89) -> Milli(89000)
          [] lo = Deg(89) /\ hi = Deg(89) -> Milli(89293)

\* updateDirections, with the third corner mirrored
updateDirectionsMirrored(directions, xHalfAngle, yHalfAngle) ==
    LET theta == RectTheta(xHalfAngle, yHalfAngle)
        cone == RectCone(xHalfAngle, yHalfAngle)
    IN  << Spherical(theta, cone), Spherical(Deg(180) - theta, cone),
           Spherical(Deg(180) - theta, cone), Spherical(0 - theta, cone) >>

\* The array updateDirections leaves in rectangularSensor._customSensor.directions.
updateDirections(directions, xHalfAngle, yHalfAngle) ==
    LET theta == RectTheta(xHalfAngle, yHalfAngle)
        cone == RectCone(xHalfAngle, yHalfAngle)
        d1 == assignSpherical(1, directions, theta, cone)
        d2 == assignSpherical(2, d1, Deg(180) - theta, cone)
        d3 == assignSpherical(3, d2, Deg(180) + theta, cone)
        d4 == assignSpherical(4, d3, 0 - theta, cone)
    IN  SubSeq(d4, 1, 4)

(***************************************************************************)
(* Values the time-sampled properties resolve to.                          *)
(***************************************************************************)
Infinity == 2147483647
Positions == {"p1", "p2"}
Orientations == {"q1", "q2"}
IDENTITY == [translation |-> "origin", rotation |-> "identity"]

\* Matrix4.fromRotationTranslation(Matrix3.fromQuaternion(orientation), position)
fromRotationTranslation(orientation, position) ==
    [translation |-> position, rotation |-> orientation]

NoShape == [minimumClockAngle |-> 0, maximumClockAngle |-> 0, innerHalfAngle |-> 0,
            outerHalfAngle |-> 0, directionsDefined |-> FALSE, directions |-> <<>>,
            xHalfAngle |-> 0, yHalfAngle |-> 0]

ConicShapes ==
    { [NoShape EXCEPT !.minimumClockAngle = 0, !.maximumClockAngle = Deg(4),
                      !.innerHalfAngle = inner, !.outerHalfAngle = Deg(30)] :
        inner \in {0, Deg(10)} }

Triangle == << Spherical(0, Deg(30)), Spherical(Deg(120), Deg(30)), Spherical(Deg(240), Deg(30)) >>
Square == << Spherical(0, Deg(45)), Spherical(Deg(90), Deg(45)),
             Spherical(Deg(180), Deg(45)), Spherical(Deg(270), Deg(45)) >>

CustomShapes ==
    { [NoShape EXCEPT !.directionsDefined = TRUE, !.directions = d] : d \in {Triangle, Square} }

RectShapes ==
    { [NoShape EXCEPT !.xHalfAngle = x, !.yHalfAngle = Deg(45)] : x \in {Deg(30), Deg(45)} }

Shapes(k) == CASE k = "conic" -> ConicShapes
               [] k = "custom" -> CustomShapes
               [] k = "rect" -> RectShapes

\* radius, material, intersection colour and width as the entity's properties
\* resolve them; the first is what undefined properties default to.
Looks ==
    { [radius |-> Infinity, material |-> "Color", intersectionColor |-> "WHITE", intersectionWidth |-> 1],
      [radius |-> 10, material |-> "Stripe", intersectionColor |-> "RED", intersectionWidth |-> 3] }

\* What one entity resolves to at the time of a tick.
BaseInput(k) ==
    [isShowing |-> TRUE, isAvailable |-> TRUE, show |-> TRUE, showIntersection |-> TRUE,
     position |-> "p1", orientation |-> "q1",
     shape |-> CHOOSE s \in Shapes(k) : TRUE,
     look |-> CHOOSE l \in Looks : l.radius = Infinity]

\* the visible inputs: the base one, and those that differ from it in one field
VisibleInputs(k) ==
    { [BaseInput(k) EXCEPT !.position = p] : p \in Positions }
    \cup { [BaseInput(k) EXCEPT !.orientation = q] : q \in Orientations }
    \cup { [BaseInput(k) EXCEPT !.shape = s] : s \in Shapes(k) }
    \cup { [BaseInput(k) EXCEPT !.look = l] : l \in Looks }
    \cup { [BaseInput(k) EXCEPT !.showIntersection = FALSE] }

HiddenInputs(k) ==
    { [BaseInput(k) EXCEPT !.isShowing = FALSE],
      [BaseInput(k) EXCEPT !.isAvailable = FALSE],
      [BaseInput(k) EXCEPT !.show = FALSE],
      [BaseInput(k) EXCEPT !.position = Undefined],
      [BaseInput(k) EXCEPT !.orientation = Undefined] }
    \cup (IF k = "custom"
          THEN { [BaseInput(k) EXCEPT !.shape = NoShape] }
          ELSE {})

TickInputs(k) == VisibleInputs(k) \cup HiddenInputs(k)

(***************************************************************************)
(* The volume primitive: the fields of CustomSensorVolume (and, for the    *)
(* rectangular kind, of the RectangularPyramidSensorVolume that wraps one) *)
(* that its owner reads and writes.                                        *)
(***************************************************************************)
NoPrimitive ==
    [state |-> "none", destroyCalls |-> 0, show |-> FALSE, showIntersection |-> FALSE,
     showThroughEllipsoid |-> FALSE, modelMatrix |-> IDENTITY, radius |-> 0,
     directions |-> <<>>, directionsDirty |-> FALSE, lateralSurfaceMaterial |-> "Color",
     intersectionColor |-> "WHITE", intersectionWidth |-> 0, id |-> 0,
     xHalfAngle |-> 0, yHalfAngle |-> 0, mode |-> "SCENE3D"]

\* new CustomSensorVolume(): the directions setter runs in the constructor.
CustomSensorVolume ==
    [NoPrimitive EXCEPT !.state = "live", !.show = TRUE, !.showIntersection = TRUE,
                        !.showThroughEllipsoid = FALSE, !.modelMatrix = IDENTITY,
                        !.radius = Infinity, !.directions = <<>>, !.directionsDirty = TRUE,
                        !.lateralSurfaceMaterial = "Color", !.intersectionColor = "WHITE",
                        !.intersectionWidth = 5, !.mode = "SCENE3D"]

\* the directions setter
SetDirections(p, value) == [p EXCEPT !.directions = value, !.directionsDirty = TRUE]

\* new RectangularPyramidSensorVolume()
RectangularPyramidSensorVolume ==
    LET c == [CustomSensorVolume EXCEPT !.xHalfAngle = PI_OVER_TWO, !.yHalfAngle = PI_OVER_TWO]
    IN  SetDirections(c, updateDirections(c.directions, PI_OVER_TWO, PI_OVER_TWO))

\* if (value > CesiumMath.PI_OVER_TWO) throw new DeveloperError(...)
HalfAngleThrows(value) == value > PI_OVER_TWO

\* SetXHalfAngle, keeping the capped angle
SetXHalfAngleCapped(p, value) ==
    IF HalfAngleThrows(value) \/ p.xHalfAngle = value
    THEN p
    ELSE SetDirections([p EXCEPT !.xHalfAngle = Min(value, TangentCap)],
                       updateDirections(p.directions, value, p.yHalfAngle))

\* the xHalfAngle setter; a throw leaves the primitive as it was
SetXHalfAngle(p, value) ==
    IF HalfAngleThrows(value) \/ p.xHalfAngle = value
    THEN p
    ELSE SetDirections([p EXCEPT !.xHalfAngle = value],
                       updateDirections(p.directions, value, p.yHalfAngle))

\* the yHalfAngle setter; a throw leaves the primitive as it was
SetYHalfAngle(p, value) ==
    IF HalfAngleThrows(value) \/ p.yHalfAngle = value
    THEN p
    ELSE SetDirections([p EXCEPT !.yHalfAngle = value],
                       updateDirections(p.directions, p.xHalfAngle, value))

\* destroy() of a primitive ends in destroyObject(this)
DestroyPrimitive(p) ==
    [NoPrimitive EXCEPT !.state = "destroyed",
                        !.destroyCalls = IF p.destroyCalls < 2 THEN p.destroyCalls + 1 ELSE 2]

isDestroyed(p) == p.state = "destroyed"

(***************************************************************************)
(* The synchronizer's maps.                                                *)
(***************************************************************************)
NoPid == <<0, 0>>

\* hash[entity.id] when it is undefined
NoEntry ==
    [defined |-> FALSE, primitive |-> NoPid, position |-> Undefined, orientation |-> Undefined,
     minimumClockAngle |-> None, maximumClockAngle |-> None,
     innerHalfAngle |-> None, outerHalfAngle |-> None,
     scratch |-> FALSE]    \* position and orientation are cachedPosition, cachedOrientation

\* NewEntry, with the snapshot filled in as if a transform had been applied
NewEntryWithSnapshot(pid) ==
    [NoEntry EXCEPT !.defined = TRUE, !.primitive = pid, !.position = "p1", !.orientation = "q1"]

\* the data object a tick stores in hash[entity.id] for a new primitive
NewEntry(pid) == [NoEntry EXCEPT !.defined = TRUE, !.primitive = pid]

\* The synchronizer's mutable state as one value, threaded through its loops.
State == [entities |-> entitiesToVisualize, hash |-> hash, prims |-> prims,
          primitives |-> primitives]

RECURSIVE ForEach(_, _, _)
ForEach(Op(_, _), S, st) ==
    IF S = {}
    THEN st
    ELSE LET x == CHOOSE y \in S : TRUE
         IN  ForEach(Op, S \ {x}, Op(st, x))

\* scene.primitives.add(primitive)
CollectionAdd(st, pid) == [st EXCEPT !.primitives = @ \cup {pid}]

\* scene.primitives.remove(primitive): a contained primitive is taken out and,
\* when the collection owns its primitives, destroyed
CollectionRemove(st, pid) ==
    IF pid \in st.primitives
    THEN [st EXCEPT !.primitives = @ \ {pid},
                    !.prims[pid] = IF destroyPrimitives THEN DestroyPrimitive(@) ELSE @]
    ELSE st

\* removePrimitive, leaving the destroy to the registry
removePrimitiveNoDestroy(st, e) ==
    LET data == st.hash[e]
    IN  IF data.defined
        THEN [CollectionRemove(st, data.primitive) EXCEPT !.hash[e] = NoEntry]
        ELSE st

\* removePrimitive, calling destroy without asking isDestroyed
removePrimitiveDestroysAgain(st, e) ==
    LET data == st.hash[e]
    IN  IF data.defined
        THEN LET pid == data.primitive
                 removed == CollectionRemove(st, pid)
             IN  [removed EXCEPT !.prims[pid] = DestroyPrimitive(@), !.hash[e] = NoEntry]
        ELSE st

removePrimitive(st, e) ==
    LET data == st.hash[e]
    IN  IF data.defined
        THEN LET pid == data.primitive
                 removed == CollectionRemove(st, pid)
                 destroyedToo == IF ~isDestroyed(removed.prims[pid])
                                 THEN [removed EXCEPT !.prims[pid] = DestroyPrimitive(@)]
                                 ELSE removed
             IN  [destroyedToo EXCEPT !.hash[e] = NoEntry]
        ELSE st

(***************************************************************************)
(* _onCollectionChanged(entityCollection, added, removed, changed).        *)
(* def[e] tells which of entity e's _<kind>Sensor, _position and           *)
(* _orientation properties are defined when the notification arrives.      *)
(***************************************************************************)
AllDefined == [sensor |-> TRUE, position |-> TRUE, orientation |-> TRUE]
Defs == { AllDefined,
          [AllDefined EXCEPT !.sensor = FALSE],
          [AllDefined EXCEPT !.position = FALSE],
          [AllDefined EXCEPT !.orientation = FALSE] }

\* defined(entity._conicSensor) && defined(entity._position) && defined(entity._orientation)
Complete(d) == d.sensor /\ d.position /\ d.orientation

\* OnAdded with the orientation test inverted
OnAddedMisses(st, e, d) ==
    IF d.sensor /\ d.position /\ ~d.orientation THEN [st EXCEPT !.entities = @ \cup {e}] ELSE st

OnAdded(st, e, d) ==
    IF Complete(d) THEN [st EXCEPT !.entities = @ \cup {e}] ELSE st

\* OnChanged, untracking without retiring the entry
OnChangedKeeps(st, e, d) ==
    IF Complete(d)
    THEN [st EXCEPT !.entities = @ \cup {e}]
    ELSE [st EXCEPT !.entities = @ \ {e}]

OnChanged(st, e, d) ==
    IF Complete(d)
    THEN [st EXCEPT !.entities = @ \cup {e}]
    ELSE [removePrimitive(st, e) EXCEPT !.entities = @ \ {e}]

\* OnRemoved, untracking without retiring the entry
OnRemovedKeeps(st, e) == [st EXCEPT !.entities = @ \ {e}]

OnRemoved(st, e) == [removePrimitive(st, e) EXCEPT !.entities = @ \ {e}]

\* onCollectionChanged, with the removed list applied before the other two
onCollectionChangedRemovedFirst(st, note) ==
    LET afterRemoved == ForEach(LAMBDA s, e : OnRemoved(s, e), note.removed, st)
        afterAdded == ForEach(LAMBDA s, e : OnAdded(s, e, note.def[e]), note.added, afterRemoved)
    IN  ForEach(LAMBDA s, e : OnChanged(s, e, note.def[e]), note.changed, afterAdded)

onCollectionChanged(st, note) ==
    LET afterAdded == ForEach(LAMBDA s, e : OnAdded(s, e, note.def[e]), note.added, st)
        afterChanged == ForEach(LAMBDA s, e : OnChanged(s, e, note.def[e]), note.changed, afterAdded)
    IN  ForEach(LAMBDA s, e : OnRemoved(s, e), note.removed, afterChanged)

NoNote == [added |-> {}, changed |-> {}, removed |-> {}, def |-> [e \in Ids |-> AllDefined]]

\* The notifications the collection delivers: one entity, in one of the lists.
Notes ==
    { [NoNote EXCEPT !.added = {e}, !.def[e] = d] : e \in Ids, d \in Defs }
    \cup { [NoNote EXCEPT !.changed = {e}, !.def[e] = d] : e \in Ids, d \in Defs }
    \cup { [NoNote EXCEPT !.removed = {e}] : e \in Ids }

(***************************************************************************)
(* update(time) of the three synchronizers, for one tracked entity.        *)
(***************************************************************************)
ShowConic(i) ==
    i.isShowing /\ i.isAvailable /\ i.show
    /\ i.position # Undefined /\ i.orientation # Undefined

ShowCustom(i) ==
    i.isShowing /\ i.isAvailable /\ i.show
    /\ i.position # Undefined /\ i.orientation # Undefined /\ i.shape.directionsDefined

\* ShowRect without the availability test
ShowRectAlwaysAvailable(i) ==
    i.isShowing /\ i.show
    /\ i.position # Undefined /\ i.orientation # Undefined

ShowRect(i) ==
    i.isShowing /\ i.isAvailable /\ i.show
    /\ i.position # Undefined /\ i.orientation # Undefined

Show(k, i) == CASE k = "conic" -> ShowConic(i)
                [] k = "custom" -> ShowCustom(i)
                [] k = "rect" -> ShowRect(i)

\* the object identity the next primitive allocated for entity e gets
NextPid(st, e) == <<e, Cardinality({g \in 1..MaxGen : st.prims[<<e, g>>].state # "none"}) + 1>>

\* Ensure, without primitives.add(primitive)
EnsureUnregistered(st, e, fresh) ==
    IF st.hash[e].defined
    THEN st
    ELSE LET pid == NextPid(st, e)
         IN  [st EXCEPT !.prims[pid] = [fresh EXCEPT !.id = e], !.hash[e] = NewEntry(pid)]

\* primitive = new ...; primitive.id = entity; primitives.add(primitive); hash[entity.id] = data
Ensure(st, e, fresh) ==
    IF st.hash[e].defined
    THEN st
    ELSE LET pid == NextPid(st, e)
         IN  [CollectionAdd(st, pid) EXCEPT !.prims[pid] = [fresh EXCEPT !.id = e],
                                            !.hash[e] = NewEntry(pid)]

\* Hide, creating the primitive before the visibility check
HideEnsures(st, e) ==
    LET made == Ensure(st, e, CustomSensorVolume)
    IN  [made EXCEPT !.prims[made.hash[e].primitive].show = FALSE]

\* Hide, forgetting the snapshot as well
HideForgets(st, e) ==
    IF st.hash[e].defined
    THEN [st EXCEPT !.prims[st.hash[e].primitive].show = FALSE,
                    !.hash[e].position = Undefined]
    ELSE st

\* if (!show) { if (defined(data)) data.primitive.show = false; continue; }
Hide(st, e) ==
    IF st.hash[e].defined
    THEN [st EXCEPT !.prims[st.hash[e].primitive].show = FALSE]
    ELSE st

\* Property.getValueOrUndefined(entity._position, time, cachedPosition) and the
\* same for the orientation: the scratch objects take the resolved values, and
\* so does a snapshot that is the scratch objects themselves
Resolve(st, i) ==
    IF i.isShowing /\ i.isAvailable /\ i.show
    THEN [st EXCEPT !.hash =
            [o \in Ids |->
               IF st.hash[o].scratch
               THEN [st.hash[o] EXCEPT
                        !.position = IF i.position # Undefined THEN i.position ELSE @,
                        !.orientation = IF i.orientation # Undefined THEN i.orientation ELSE @]
               ELSE st.hash[o]]]
    ELSE st

\* Transform, keeping the resolved objects instead of clones of them
TransformShared(st, e, i) ==
    LET data == st.hash[e]
    IN  IF i.position # data.position \/ i.orientation # data.orientation
        THEN [st EXCEPT !.prims[data.primitive].modelMatrix =
                            fromRotationTranslation(i.orientation, i.position),
                        !.hash[e].position = i.position,
                        !.hash[e].orientation = i.orientation,
                        !.hash[e].scratch = TRUE]
        ELSE st

\* the transform, rewritten when position or orientation differ from the snapshot;
\* the snapshot is a clone of the resolved values
Transform(st, e, i) ==
    LET data == st.hash[e]
    IN  IF i.position # data.position \/ i.orientation # data.orientation
        THEN [st EXCEPT !.prims[data.primitive].modelMatrix =
                            fromRotationTranslation(i.orientation, i.position),
                        !.hash[e].position = i.position,
                        !.hash[e].orientation = i.orientation,
                        !.hash[e].scratch = FALSE]
        ELSE st

\* radius, material, intersection colour and width are assigned on every visible tick
Appearance(p, look) ==
    [p EXCEPT !.radius = look.radius, !.lateralSurfaceMaterial = look.material,
              !.intersectionColor = look.intersectionColor,
              !.intersectionWidth = look.intersectionWidth]

ConicAngles(st, e, i) ==
    LET data == st.hash[e]
        s == i.shape
    IN  IF \/ Some(s.minimumClockAngle) # data.minimumClockAngle
           \/ Some(s.maximumClockAngle) # data.maximumClockAngle
           \/ Some(s.innerHalfAngle) # data.innerHalfAngle
           \/ Some(s.outerHalfAngle) # data.outerHalfAngle
        THEN [st EXCEPT !.prims[data.primitive] =
                            SetDirections(@, computeDirections(@.directions,
                                s.minimumClockAngle, s.maximumClockAngle,
                                s.innerHalfAngle, s.outerHalfAngle)),
                        !.hash[e].innerHalfAngle = Some(s.innerHalfAngle),
                        !.hash[e].maximumClockAngle = Some(s.maximumClockAngle),
                        !.hash[e].outerHalfAngle = Some(s.outerHalfAngle),
                        !.hash[e].minimumClockAngle = Some(s.minimumClockAngle)]
        ELSE st

\* primitive.directions = directions
CustomDirections(p, i) == SetDirections(p, i.shape.directions)

\* primitive.xHalfAngle = ...; primitive.yHalfAngle = ...
RectAngles(p, i) == SetYHalfAngle(SetXHalfAngle(p, i.shape.xHalfAngle), i.shape.yHalfAngle)

\* UpdateConic, assigning the resolved showIntersection with the appearance
UpdateConicShowsIntersection(st, e, i) ==
    IF ~ShowConic(i)
    THEN Hide(Resolve(st, i), e)
    ELSE LET moved == Transform(Ensure(Resolve(st, i), e, CustomSensorVolume), e, i)
             pid == moved.hash[e].primitive
             shown == [moved EXCEPT !.prims[pid].show = TRUE]
             shaped == ConicAngles(shown, e, i)
         IN  [shaped EXCEPT !.prims[pid] =
                 [Appearance(@, i.look) EXCEPT !.showIntersection = i.showIntersection]]

UpdateConic(st, e, i) ==
    IF ~ShowConic(i)
    THEN Hide(Resolve(st, i), e)
    ELSE LET moved == Transform(Ensure(Resolve(st, i), e, CustomSensorVolume), e, i)
             pid == moved.hash[e].primitive
             shown == [moved EXCEPT !.prims[pid].show = TRUE]
             shaped == ConicAngles(shown, e, i)
         IN  [shaped EXCEPT !.prims[pid] = Appearance(@, i.look)]

UpdateCustom(st, e, i) ==
    IF ~ShowCustom(i)
    THEN Hide(Resolve(st, i), e)
    ELSE LET moved == Transform(Ensure(Resolve(st, i), e, CustomSensorVolume), e, i)
             pid == moved.hash[e].primitive
             shown == [moved EXCEPT !.prims[pid].show = TRUE]
             shaped == [shown EXCEPT !.prims[pid] = CustomDirections(@, i)]
         IN  [shaped EXCEPT !.prims[pid] = Appearance(@, i.look)]

UpdateRect(st, e, i) ==
    IF ~ShowRect(i)
    THEN Hide(Resolve(st, i), e)
    ELSE LET moved == Transform(Ensure(Resolve(st, i), e, RectangularPyramidSensorVolume), e, i)
             pid == moved.hash[e].primitive
             shown == [moved EXCEPT !.prims[pid].show = TRUE]
             shaped == [shown EXCEPT !.prims[pid] = RectAngles(@, i)]
         IN  [shaped EXCEPT !.prims[pid] = Appearance(@, i.look)]

\* DestroyAll, with the loop stopping one entity short
DestroyAllButOne(st) ==
    IF st.entities = {}
    THEN st
    ELSE ForEach(LAMBDA s, e : removePrimitive(s, e),
                 st.entities \ {CHOOSE e \in st.entities : TRUE}, st)

\* destroy() of a synchronizer
DestroyAll(st) == ForEach(LAMBDA s, e : removePrimitive(s, e), st.entities, st)

(***************************************************************************)
(* update(frameState) of a primitive, as far as the fields above go: the   *)
(* scene mode is recorded, a hidden primitive or a mode other than 3D      *)
(* returns at once, and otherwise a dirty boundary is consumed.            *)
(***************************************************************************)
\* if (this.radius < 0.0) throw new DeveloperError(...), past the early return
UpdateThrows(p, mode) == p.show /\ mode = "SCENE3D" /\ p.radius < 0

\* UpdatePrimitive, consuming the dirty boundary before the early return
UpdatePrimitiveConsumes(p, mode) == [p EXCEPT !.mode = mode, !.directionsDirty = FALSE]

UpdatePrimitive(p, mode) ==
    IF ~p.show \/ mode # "SCENE3D" \/ UpdateThrows(p, mode)
    THEN [p EXCEPT !.mode = mode]
    ELSE [p EXCEPT !.mode = mode, !.directionsDirty = FALSE]

(***************************************************************************)
(* The synchronizer as a state machine.  Two specifications run the same   *)
(* handlers over different inputs: Spec resolves the focus entity          *)
(* to every input of TickInputs and keeps the notifications plain;         *)
(* SpecLife delivers every notification of Notes, records it, and keeps    *)
(* the tick inputs plain.                                                  *)
(***************************************************************************)
NoInputs == [e \in Ids |-> BaseInput(kind)]

(***************************************************************************)
(* The render side of one primitive: what update(frameState) keeps in the  *)
(* primitive's private fields and in its three draw commands.  Backend     *)
(* resources are entries of a ledger that counts their destroy calls; a    *)
(* field holding one holds its index, 0 when the field is undefined.       *)
(***************************************************************************)
MaxVertexArrays == 2
MaxPickIds == 2

SceneModes == {"SCENE3D", "SCENE2D"}
Passes == { [render |-> TRUE, pick |-> TRUE],
            [render |-> TRUE, pick |-> FALSE],
            [render |-> FALSE, pick |-> TRUE] }
FrameStates == [mode : SceneModes, passes : Passes]

\* lateralSurfaceMaterial.isTranslucent(): of the two materials, the striped one is
isTranslucent(material) == material = "Stripe"

\* the private fields as the constructor leaves them
NoGpu ==
    [ vertexArray |-> 0, va |-> 0, vertexArrays |-> <<>>,
      pickId |-> 0, id |-> None, pickIds |-> <<>>,
      frontShaderProgram |-> None, pickShaderProgram |-> None,
      modelMatrix |-> None, lateralSurfaceMaterial |-> None,
      translucent |-> None, renderState |-> None,
      boundingSphere |-> None, boundingSphereWC |-> None,
      fragment |-> None,
      commandList |-> <<>> ]

\* resource.destroy(), on the resource a field holds
DestroyAt(ledger, i) ==
    IF i = 0 THEN ledger ELSE [ledger EXCEPT ![i].destroyCalls = @ + 1]

(***************************************************************************)
(* computePositions.  Lengths of unit vectors and cosines are in units of  *)
(* 1/Unit; the sines and cosines of the angles the boundaries of the model *)
(* use are tabulated.                                                      *)
(***************************************************************************)
Unit == 10000
FAR == 2147483646

Cos(a) == CASE a = 0 -> 10000
            [] a = Deg(2) -> 9994
            [] a = Deg(4) -> 9976
            [] a = Deg(10) -> 9848
            [] a = Deg(30) -> 8660
            [] a = Deg(45) -> 7071
            [] a = Deg(90) -> 0
            [] a = Deg(120) -> 0 - 5000
            [] a = Deg(180) -> 0 - 10000
            [] a = Deg(240) -> 0 - 5000
            [] a = Deg(270) -> 0

Sin(a) == CASE a = 0 -> 0
            [] a = Deg(2) -> 349
            [] a = Deg(4) -> 698
            [] a = Deg(10) -> 1736
            [] a = Deg(30) -> 5000
            [] a = Deg(45) -> 7071
            [] a = Deg(90) -> 10000
            [] a = Deg(120) -> 8660
            [] a = Deg(180) -> 0
            [] a = Deg(240) -> 0 - 8660
            [] a = Deg(270) -> 0 - 10000

\* Cartesian3.fromSpherical
fromSpherical(s) ==
    << (s.magnitude * Sin(s.cone) * Cos(s.clock)) \div Unit,
       (s.magnitude * Sin(s.cone) * Sin(s.clock)) \div Unit,
       s.magnitude * Cos(s.cone) >>

dot(a, b) == (a[1] * b[1] + a[2] * b[2] + a[3] * b[3]) \div Unit

\* the integer square root of v, by bisection between lo and hi
RECURSIVE Sqrt(_, _, _)
Sqrt(v, lo, hi) ==
    IF lo >= hi
    THEN lo
    ELSE LET mid == (lo + hi + 1) \div 2
         IN  IF mid * mid <= v THEN Sqrt(v, mid, hi) ELSE Sqrt(v, lo, mid - 1)

\* Math.cos(theta * 0.5) from the cosine of theta
CosHalf(cosTheta) == Sqrt(((Unit + cosTheta) * Unit) \div 2, 0, Unit)

\* CosHalfTheta, with the smaller of the two angles
CosHalfThetaOfSmaller(n0, n1, n2) ==
    CosHalf(IF dot(n0, n1) > dot(n1, n2) THEN dot(n0, n1) ELSE dot(n1, n2))

\* Math.cos(0.5 * Math.max(angleBetween(n0, n1), angleBetween(n1, n2))): the larger
\* angle is the one of the smaller cosine.
CosHalfTheta(n0, n1, n2) == CosHalf(Min(dot(n0, n1), dot(n1, n2)))

\* Cartesian3.ZERO, as a position
ZERO == [direction |-> Spherical(0, 0), radius |-> 0, extension |-> 0]

\* Extended, pushing the direction to the radius and no further
ExtendedToRadius(p, i, j, k) ==
    [ direction |-> p.directions[j + 1],
      radius |-> IF p.radius # Infinity THEN p.radius ELSE FAR,
      extension |-> Unit ]

\* p in the body of the loop: direction j, extended to r / cos(theta / 2), theta
\* from the directions i and k (indices from 0).  The vertex is kept as its
\* direction, r, and the factor 1 / cos(theta / 2) in units of 1/Unit.
Extended(p, i, j, k) ==
    LET n(x) == fromSpherical(p.directions[x + 1])
    IN  [ direction |-> p.directions[j + 1],
          radius |-> IF p.radius # Infinity THEN p.radius ELSE FAR,
          extension |-> (Unit * Unit) \div CosHalfTheta(n(i), n(j), n(k)) ]

\* positionLoop with "i = j++" lost: the predecessor stays where it started
RECURSIVE positionLoopStalePredecessor(_, _, _, _)
positionLoopStalePredecessor(p, i, j, k) ==
    IF k >= Len(p.directions)
    THEN <<>>
    ELSE <<[index |-> j, position |-> Extended(p, i, j, k)]>>
             \o positionLoopStalePredecessor(p, i, k, k + 1)

\* for (i = length - 2, j = length - 1, k = 0; k < length; i = j++, j = k++), from
\* (i, j, k) on: the index written and the position pushed in each pass
RECURSIVE positionLoop(_, _, _, _)
positionLoop(p, i, j, k) ==
    IF k >= Len(p.directions)
    THEN <<>>
    ELSE <<[index |-> j, position |-> Extended(p, i, j, k)]>> \o positionLoop(p, j, k, k + 1)

positionPasses(p) == positionLoop(p, Len(p.directions) - 2, Len(p.directions) - 1, 0)

\* positions: what the passes leave at each index of an array of zeros
computePositions(p) ==
    LET passes == positionPasses(p)
    IN  [ j \in 1..Len(p.directions) |->
            LET hits == { n \in 1..Len(passes) : passes[n].index = j - 1 }
            IN  IF hits = {}
                THEN ZERO
                ELSE passes[CHOOSE n \in hits : \A o \in hits : o <= n].position ]

\* the indices in the order the passes write them
writtenIndices(p) == LET passes == positionPasses(p) IN [n \in 1..Len(passes) |-> passes[n].index]

\* boundingVolumePositions: the origin, and the positions in the order the passes
\* push them
boundingVolumePositions(p) ==
    LET passes == positionPasses(p)
    IN  <<ZERO>> \o [n \in 1..Len(passes) |-> passes[n].position]

\* a position in Cartesian coordinates, in thousandths of r
Cartesian(v) ==
    LET n == fromSpherical(v.direction)
        part(a) == IF a >= 0 THEN a \div (10 * Unit) ELSE 0 - ((0 - a) \div (10 * Unit))
    IN  << part(n[1] * v.extension), part(n[2] * v.extension), part(n[3] * v.extension) >>

magnitudeSquared(a, b) ==
    (a[1] - b[1]) * (a[1] - b[1]) + (a[2] - b[2]) * (a[2] - b[2]) + (a[3] - b[3]) * (a[3] - b[3])

distance(a, b) == Sqrt(magnitudeSquared(a, b), 0, 46340)

midpoint(a, b) == << (a[1] + b[1]) \div 2, (a[2] + b[2]) \div 2, (a[3] + b[3]) \div 2 >>

\* the first of the points whose coordinate on an axis is the least (sign = 1) or
\* the greatest (sign = -1)
Extreme(points, axis, sign) ==
    points[CHOOSE i \in 1..Len(points) :
              /\ \A k \in 1..Len(points) : sign * points[k][axis] >= sign * points[i][axis]
              /\ \A k \in 1..(i - 1) : sign * points[k][axis] > sign * points[i][axis]]

\* the value an expression has, taken once
The(values) == CHOOSE v \in values : TRUE

\* one point of Ritter's algorithm: a point outside the sphere moves the centre
\* towards it and grows the radius
Grown(sphere, point) ==
    LET oldCenterToPoint == distance(point, sphere.center)
        ritterRadius == (sphere.radius + oldCenterToPoint) \div 2
        oldToNew == oldCenterToPoint - ritterRadius
        towards(k) == (ritterRadius * sphere.center[k] + oldToNew * point[k])
                          \div oldCenterToPoint
    IN  IF oldCenterToPoint > sphere.radius
        THEN [center |-> <<towards(1), towards(2), towards(3)>>, radius |-> ritterRadius]
        ELSE sphere

\* the sphere of Ritter's algorithm after the points from index i on
RECURSIVE Ritter(_, _, _)
Ritter(points, i, sphere) ==
    IF i > Len(points)
    THEN sphere
    ELSE The({ Ritter(points, i + 1, grown) : grown \in {Grown(sphere, points[i])} })

\* the larger of the distances from a centre to the points from index i on
RECURSIVE naiveRadius(_, _, _)
naiveRadius(points, i, center) ==
    IF i > Len(points)
    THEN 0
    ELSE The({ IF r > rest THEN r ELSE rest :
                 r \in {distance(points[i], center)},
                 rest \in {naiveRadius(points, i + 1, center)} })

\* the sphere of fromPoints about points given in Cartesian coordinates: the
\* sphere about the centre of the points' bounding box and the sphere of Ritter's
\* algorithm, started on the widest of the three spans between extreme points;
\* the smaller is taken.
tightest(points) ==
    LET low == [axis \in 1..3 |-> Extreme(points, axis, 1)]
        high == [axis \in 1..3 |-> Extreme(points, axis, 0 - 1)]
        span(axis) == magnitudeSquared(high[axis], low[axis])
        widest == IF span(3) > span(1) /\ span(3) > span(2) THEN 3
                  ELSE IF span(2) > span(1) THEN 2 ELSE 1
        started == [center |-> midpoint(low[widest], high[widest]),
                    radius |-> distance(high[widest], midpoint(low[widest], high[widest]))]
        naiveCenter == midpoint(<<low[1][1], low[2][2], low[3][3]>>,
                                <<high[1][1], high[2][2], high[3][3]>>)
    IN  The({ IF ritter.radius < naive.radius THEN ritter ELSE naive :
                ritter \in {Ritter(points, 1, The({started}))},
                naive \in {[center |-> naiveCenter,
                            radius |-> naiveRadius(points, 1, naiveCenter)]} })

\* BoundingSphere.fromPoints(boundingVolumePositions); center and radius are in
\* thousandths of r.
fromPoints(positions) ==
    The({ Some([around |-> positions, center |-> tight.center, radius |-> tight.radius]) :
            tight \in { tightest(points) :
                          points \in {[i \in 1..Len(positions) |-> Cartesian(positions[i])]} } })

\* BoundingSphere.transform(sphere, modelMatrix)
transform(sphere, modelMatrix) == [sphere |-> sphere, modelMatrix |-> modelMatrix]

\* Cartesian3.cross
cross(a, b) ==
    << a[2] * b[3] - a[3] * b[2], a[3] * b[1] - a[1] * b[3], a[1] * b[2] - a[2] * b[1] >>

\* Cartesian3.normalize, of a product of two positions: a vector of length 1000
normalized(v) ==
    LET part(a) == IF a >= 0 THEN a \div 1000 ELSE 0 - ((0 - a) \div 1000)
        w == <<part(v[1]), part(v[2]), part(v[3])>>
        length == distance(w, <<0, 0, 0>>)
    IN  << (1000 * w[1]) \div length, (1000 * w[2]) \div length, (1000 * w[3]) \div length >>

\* the three vertices the loop writes for (i, j): the sensor vertex, p1 =
\* positions[j] and p0 = positions[i], each with the normal n of the face
Face(positions, i, j) ==
    LET n == normalized(cross(Cartesian(positions[j]), Cartesian(positions[i])))
    IN  << [position |-> ZERO, normal |-> n],
           [position |-> positions[j], normal |-> n],
           [position |-> positions[i], normal |-> n] >>

\* for (i = length - 1, j = 0; j < length; i = j++), from j on
RECURSIVE Fan(_, _, _)
Fan(positions, i, j) ==
    IF j > Len(positions)
    THEN <<>>
    ELSE Face(positions, i, j) \o Fan(positions, j, j + 1)

\* createVertexArray, with the two positions of a face in the other order
createVertexArrayPreviousFirst(p) ==
    LET positions == computePositions(p)
        faces == Fan(positions, Len(positions), 1)
    IN  [triangles |-> Len(p.directions), radius |-> p.radius,
         positions |-> positions, written |-> writtenIndices(p),
         vertices |-> [k \in 1..Len(faces) |->
                         CASE k % 3 = 2 -> faces[k + 1]
                           [] k % 3 = 0 -> faces[k - 1]
                           [] OTHER -> faces[k]],
         destroyCalls |-> 0]

\* the vertex array: one triangle per direction, from the apex to two positions
createVertexArray(p) ==
    LET positions == computePositions(p)
    IN  [triangles |-> Len(p.directions), radius |-> p.radius,
         positions |-> positions, written |-> writtenIndices(p),
         vertices |-> Fan(positions, Len(positions), 1),
         destroyCalls |-> 0]

\* the render state, recreated when translucency changes
RenderStates(p, g) ==
    LET translucent == isTranslucent(p.lateralSurfaceMaterial)
    IN  IF g.renderState = None \/ g.translucent # Some(translucent)
        THEN [g EXCEPT !.translucent = Some(translucent),
                       !.renderState = Some(IF translucent THEN "TRANSLUCENT" ELSE "OPAQUE")]
        ELSE g

\* if (directionsChanged) { this._va = this._va && this._va.destroy(); ... }:
\* the vertex array is held by the commands, and _va by nothing.
Rebuild(p, g) ==
    IF p.directionsDirty
    THEN LET released == [g EXCEPT !.vertexArrays = DestroyAt(@, g.va), !.va = 0]
         IN  IF Len(p.directions) >= 3
             THEN [released EXCEPT !.vertexArrays = Append(@, createVertexArray(p)),
                                   !.vertexArray = Len(g.vertexArrays) + 1,
                                   !.boundingSphere =
                                       fromPoints(boundingVolumePositions(p))]
             ELSE released
    ELSE g

\* CacheTransform, taking the world sphere to follow the boundary only
CacheTransformOnRebuild(p, g, directionsChanged) ==
    [g EXCEPT !.modelMatrix = Some(p.modelMatrix),
              !.boundingSphereWC = IF directionsChanged
                                   THEN Some(transform(g.boundingSphere, p.modelMatrix))
                                   ELSE @]

\* modelMatrixChanged = !Matrix4.equals(this.modelMatrix, this._modelMatrix); the
\* cached matrix is a clone, the world sphere follows either change
CacheTransform(p, g, directionsChanged) ==
    LET modelMatrixChanged == g.modelMatrix # Some(p.modelMatrix)
    IN  [g EXCEPT !.modelMatrix = Some(p.modelMatrix),
                  !.boundingSphereWC = IF directionsChanged \/ modelMatrixChanged
                                       THEN Some(transform(g.boundingSphere, p.modelMatrix))
                                       ELSE @]

\* RenderPass, pushing the front face before the back face
RenderPassFrontFirst(p, g, materialChanged) ==
    LET compiled == IF materialChanged \/ g.frontShaderProgram = None
                    THEN [g EXCEPT !.frontShaderProgram = Some(p.lateralSurfaceMaterial)]
                    ELSE g
        front == [command |-> "front", vertexArray |-> g.vertexArray]
        back == [command |-> "back", vertexArray |-> g.vertexArray]
    IN  [compiled EXCEPT !.commandList =
            @ \o (IF isTranslucent(p.lateralSurfaceMaterial) THEN <<front, back>> ELSE <<front>>)]

\* if (pass.render) { ... commandList.push(...) }
RenderPass(p, g, materialChanged) ==
    LET compiled == IF materialChanged \/ g.frontShaderProgram = None
                    THEN [g EXCEPT !.frontShaderProgram = Some(p.lateralSurfaceMaterial)]
                    ELSE g
        front == [command |-> "front", vertexArray |-> g.vertexArray]
        back == [command |-> "back", vertexArray |-> g.vertexArray]
    IN  [compiled EXCEPT !.commandList =
            @ \o (IF isTranslucent(p.lateralSurfaceMaterial) THEN <<back, front>> ELSE <<front>>)]

\* if (pass.pick) { ... commandList.push(pickCommand) }
PickPass(p, g, materialChanged) ==
    LET identified ==
            IF g.pickId = 0 \/ g.id # Some(p.id)
            THEN [g EXCEPT !.id = Some(p.id),
                           !.pickIds = Append(DestroyAt(@, g.pickId),
                                              [id |-> p.id, destroyCalls |-> 0]),
                           !.pickId = Len(g.pickIds) + 1]
            ELSE g
        compiled == IF materialChanged \/ identified.pickShaderProgram = None
                    THEN [identified EXCEPT !.pickShaderProgram = Some(p.lateralSurfaceMaterial)]
                    ELSE identified
    IN  [compiled EXCEPT !.commandList =
            Append(@, [command |-> "pick", vertexArray |-> g.vertexArray])]

\* update(frameState) on the private fields; commandList is what the call pushed
UpdateGpu(p, g, frameState) ==
    IF ~p.show \/ frameState.mode # "SCENE3D" \/ UpdateThrows(p, frameState.mode)
    THEN [g EXCEPT !.commandList = <<>>]
    ELSE LET rebuilt == [Rebuild(p, RenderStates(p, g)) EXCEPT !.commandList = <<>>]
             materialChanged == rebuilt.lateralSurfaceMaterial # Some(p.lateralSurfaceMaterial)
             cached == [CacheTransform(p, rebuilt, p.directionsDirty) EXCEPT
                          !.lateralSurfaceMaterial = Some(p.lateralSurfaceMaterial)]
             rendered == IF frameState.passes.render
                         THEN RenderPass(p, cached, materialChanged)
                         ELSE cached
         IN  IF rebuilt.vertexArray = 0
             THEN rebuilt
             ELSE IF frameState.passes.pick
                  THEN PickPass(p, rendered, materialChanged)
                  ELSE rendered

\* destroy() of the primitive, on the private fields
DestroyGpu(g) ==
    [g EXCEPT !.vertexArrays = DestroyAt(@, g.vertexArray), !.vertexArray = 0,
              !.frontShaderProgram = None, !.pickShaderProgram = None,
              !.pickIds = DestroyAt(@, g.pickId), !.pickId = 0]

\* the call that produced the state, and whether it ended by throwing
Call(op, note, in) ==
    [op |-> op, note |-> note, in |-> in, threw |-> FALSE, frameState |-> None]

Threw(op, note, in) == [Call(op, note, in) EXCEPT !.threw = TRUE]

Install(st) ==
    /\ entitiesToVisualize' = st.entities
    /\ hash' = st.hash
    /\ prims' = st.prims
    /\ primitives' = st.primitives

\* entityCollection.collectionChanged.addEventListener(
\*     ConicSensorVisualizer.prototype._onCollectionChanged, this)
Listener == "_onCollectionChanged"

InitWith(ownership) ==
    /\ kind \in Kinds
    /\ entitiesToVisualize = {}
    /\ hash = [e \in Ids |-> NoEntry]
    /\ prims = [pid \in PrimIds |-> NoPrimitive]
    /\ primitives = {}
    /\ destroyPrimitives \in ownership
    /\ destroyed = FALSE
    /\ last = Call("new", NoNote, NoInputs)
    /\ watch = [e \in Ids |-> "idle"]
    /\ listeners = {Listener}
    /\ gpu = NoGpu

\* the maps of a synchronizer that has seen no entity
NoState ==
    [entities |-> {}, hash |-> [e \in Ids |-> NoEntry],
     prims |-> [pid \in PrimIds |-> NoPrimitive], primitives |-> {}]

\* the constructor, without its call of _onCollectionChanged
ConicSensorVisualizerOfNothing(existing) == NoState

\* new ConicSensorVisualizer(scene, entityCollection), and the same for the other
\* two kinds: this._onCollectionChanged(entityCollection, entityCollection.values,
\* [], []) on empty maps.  existing is that call as a notification.
ConicSensorVisualizer(existing) == onCollectionChanged(NoState, existing)

\* collectionChanged.raiseEvent: the listeners it holds are called.  destroy()
\* removes none, so notifications still arrive after it.
Changed(note) ==
    /\ Listener \in listeners
    /\ Install(onCollectionChanged(State, note))
    /\ UNCHANGED <<kind, listeners, destroyPrimitives, destroyed, gpu>>

\* No entity needs more primitives than the model numbers.
CanAllocate(k, in) ==
    \A e \in entitiesToVisualize :
        (Show(k, in[e]) /\ ~hash[e].defined) => NextPid(State, e)[2] <= MaxGen

Ticked(k, in) ==
    /\ ~destroyed
    /\ kind = k
    /\ CanAllocate(k, in)
    /\ last' = Call("tick", NoNote, in)
    /\ UNCHANGED <<kind, listeners, destroyPrimitives, destroyed, gpu>>

UpdateConicAll(in) ==
    Install(ForEach(LAMBDA s, e : UpdateConic(s, e, in[e]), entitiesToVisualize, State))

UpdateCustomAll(in) ==
    Install(ForEach(LAMBDA s, e : UpdateCustom(s, e, in[e]), entitiesToVisualize, State))

UpdateRectAll(in) ==
    Install(ForEach(LAMBDA s, e : UpdateRect(s, e, in[e]), entitiesToVisualize, State))

\* The scene updates a primitive of its registry.
PrimitiveUpdate(pid) ==
    /\ pid \in primitives
    /\ prims[pid].state = "live"
    /\ prims' = [prims EXCEPT ![pid] = UpdatePrimitive(@, "SCENE3D")]
    /\ last' = Call("primitiveUpdate", NoNote, NoInputs)
    /\ UNCHANGED <<kind, listeners, entitiesToVisualize, hash, primitives,
                   destroyPrimitives, destroyed, watch, gpu>>

Destroy ==
    /\ ~destroyed
    /\ Install(DestroyAll(State))
    /\ destroyed' = TRUE
    /\ last' = Call("destroy", NoNote, NoInputs)
    /\ UNCHANGED <<kind, listeners, destroyPrimitives, watch, gpu>>

(***************************************************************************)
(* Spec: the tick in detail.                                               *)
(***************************************************************************)
Focus == CHOOSE e \in Ids : \A o \in Ids : e <= o

\* a visible and a hidden input
PlainInputs(k) == { BaseInput(k), [BaseInput(k) EXCEPT !.isShowing = FALSE] }

\* Every tracked entity resolves to one of the inputs; an untracked one is not read.
InputsOf(k) ==
    { in \in [Ids -> TickInputs(k)] :
        /\ \A e \in Ids \ entitiesToVisualize : in[e] = BaseInput(k)
        /\ \A e \in Ids \ {Focus} : in[e] \in PlainInputs(k) }

PlainNotes ==
    { [NoNote EXCEPT !.added = {e}] : e \in Ids }
    \cup { [NoNote EXCEPT !.changed = {e}, !.def[e].position = FALSE] : e \in Ids }
    \cup { [NoNote EXCEPT !.removed = {e}] : e \in Ids }

Notify(note) ==
    /\ Changed(note)
    /\ last' = Call("notify", NoNote, NoInputs)
    /\ UNCHANGED watch

TickConic ==
    \E in \in InputsOf("conic") :
        Ticked("conic", in) /\ UpdateConicAll(in) /\ UNCHANGED watch

TickCustom ==
    \E in \in InputsOf("custom") :
        Ticked("custom", in) /\ UpdateCustomAll(in) /\ UNCHANGED watch

TickRect ==
    \E in \in InputsOf("rect") :
        Ticked("rect", in) /\ UpdateRectAll(in) /\ UNCHANGED watch

Init == InitWith({TRUE})

Next ==
    \/ \E note \in PlainNotes : Notify(note)
    \/ TickConic
    \/ TickCustom
    \/ TickRect
    \/ \E pid \in PrimIds : PrimitiveUpdate(pid)
    \/ Destroy

Spec == Init /\ [][Next]_vars

(***************************************************************************)
(* SpecLife: the life of an entry in detail.                               *)
(***************************************************************************)
\* the watch on "added, then removed, with no tick in between that saw it visible"
WatchAfterNote(w, note, e) ==
    LET a == IF e \in note.added THEN "added" ELSE w
        c == IF e \in note.changed /\ a = "gone" THEN "idle" ELSE a
    IN  IF e \in note.removed /\ c = "added" THEN "gone" ELSE c

WatchAfterTick(k, in) ==
    [e \in Ids |-> IF e \in entitiesToVisualize /\ Show(k, in[e]) THEN "idle" ELSE watch[e]]

LifeInputsOf(k) ==
    { in \in [Ids -> PlainInputs(k)] :
        \A e \in Ids \ entitiesToVisualize : in[e] = BaseInput(k) }

NotifyLife(note) ==
    /\ Changed(note)
    /\ last' = Call("notify", note, NoInputs)
    /\ watch' = [e \in Ids |-> WatchAfterNote(watch[e], note, e)]

TickConicLife ==
    \E in \in LifeInputsOf("conic") :
        Ticked("conic", in) /\ UpdateConicAll(in) /\ watch' = WatchAfterTick("conic", in)

TickCustomLife ==
    \E in \in LifeInputsOf("custom") :
        Ticked("custom", in) /\ UpdateCustomAll(in) /\ watch' = WatchAfterTick("custom", in)

TickRectLife ==
    \E in \in LifeInputsOf("rect") :
        Ticked("rect", in) /\ UpdateRectAll(in) /\ watch' = WatchAfterTick("rect", in)

InitLife == InitWith(BOOLEAN)

NextLife ==
    \/ \E note \in Notes : NotifyLife(note)
    \/ TickConicLife
    \/ TickCustomLife
    \/ TickRectLife
    \/ \E pid \in PrimIds : PrimitiveUpdate(pid)
    \/ Destroy

SpecLife == InitLife /\ [][NextLife]_vars

(***************************************************************************)
(* SpecLists: notifications that name an entity in several lists at once;  *)
(* the handler takes whatever three lists it is called with.               *)
(***************************************************************************)
\* one entity, in any of the lists
ListNotes ==
    { [NoNote EXCEPT !.added = IF lists[1] THEN {e} ELSE {},
                     !.changed = IF lists[2] THEN {e} ELSE {},
                     !.removed = IF lists[3] THEN {e} ELSE {},
                     !.def[e] = d] :
        e \in Ids, d \in Defs,
        lists \in (BOOLEAN \X BOOLEAN \X BOOLEAN) \ {<<FALSE, FALSE, FALSE>>} }

InitLists == InitWith({TRUE}) /\ kind = "conic"

NextLists ==
    \/ \E note \in ListNotes : NotifyLife(note)
    \/ TickConicLife
    \/ Destroy

SpecLists == InitLists /\ [][NextLists]_vars

(***************************************************************************)
(* SpecNew: a synchronizer constructed over a collection that already      *)
(* holds entities, complete or not.                                        *)
(***************************************************************************)
ExistingNotes ==
    { existing \in { [NoNote EXCEPT !.added = values, !.def = def] :
                       values \in SUBSET Ids, def \in [Ids -> Defs] } :
        \A e \in Ids \ existing.added : existing.def[e] = AllDefined }

InitNew ==
    /\ kind = "conic"
    /\ last \in { Call("new", existing, NoInputs) : existing \in ExistingNotes }
    /\ entitiesToVisualize = ConicSensorVisualizer(last.note).entities
    /\ hash = ConicSensorVisualizer(last.note).hash
    /\ prims = ConicSensorVisualizer(last.note).prims
    /\ primitives = ConicSensorVisualizer(last.note).primitives
    /\ destroyPrimitives = TRUE
    /\ destroyed = FALSE
    /\ watch = [e \in Ids |-> "idle"]
    /\ listeners = {Listener}
    /\ gpu = NoGpu

SpecNew == InitNew /\ [][NextLists]_vars

(***************************************************************************)
(* SpecPrim: one primitive of its own, its setters, update and destroy.    *)
(***************************************************************************)
Solo == <<Focus, 1>>

\* a boundary of two directions
Pair == << Spherical(0, Deg(30)), Spherical(Deg(180), Deg(30)) >>

Boundaries == {Pair, Triangle}

Materials == {look.material : look \in Looks}

TouchedBy(call) ==
    /\ prims[Solo].state = "live"
    /\ last' = call
    /\ UNCHANGED <<kind, listeners, entitiesToVisualize, hash, primitives,
                   destroyPrimitives, destroyed, watch>>

Touched(op) == TouchedBy(Call(op, NoNote, NoInputs))

SetBoundary(d) ==
    /\ Touched("set")
    /\ prims' = [prims EXCEPT ![Solo] = SetDirections(@, d)]
    /\ UNCHANGED gpu

SetShow(b) ==
    /\ Touched("set")
    /\ prims' = [prims EXCEPT ![Solo].show = b]
    /\ UNCHANGED gpu

SetId(id) ==
    /\ Touched("set")
    /\ prims' = [prims EXCEPT ![Solo].id = id]
    /\ UNCHANGED gpu

SetMaterial(m) ==
    /\ Touched("set")
    /\ prims' = [prims EXCEPT ![Solo].lateralSurfaceMaterial = m]
    /\ UNCHANGED gpu

\* No more resources are created than the model numbers.
CanCreate(g) ==
    /\ Len(g.vertexArrays) <= MaxVertexArrays
    /\ Len(g.pickIds) <= MaxPickIds

Update(frameState) ==
    /\ TouchedBy(IF UpdateThrows(prims[Solo], frameState.mode)
                 THEN Threw("update", NoNote, NoInputs)
                 ELSE Call("update", NoNote, NoInputs))
    /\ CanCreate(UpdateGpu(prims[Solo], gpu, frameState))
    /\ gpu' = UpdateGpu(prims[Solo], gpu, frameState)
    /\ prims' = [prims EXCEPT ![Solo] = UpdatePrimitive(@, frameState.mode)]

DestroySolo ==
    /\ Touched("destroyPrimitive")
    /\ gpu' = DestroyGpu(gpu)
    /\ prims' = [prims EXCEPT ![Solo] = DestroyPrimitive(@)]

InitPrim ==
    /\ kind = "custom"
    /\ entitiesToVisualize = {}
    /\ hash = [e \in Ids |-> NoEntry]
    /\ prims = [pid \in PrimIds |-> IF pid = Solo THEN CustomSensorVolume ELSE NoPrimitive]
    /\ primitives = {}
    /\ destroyPrimitives = TRUE
    /\ destroyed = FALSE
    /\ last = Call("new", NoNote, NoInputs)
    /\ watch = [e \in Ids |-> "idle"]
    /\ listeners = {}
    /\ gpu = NoGpu

NextPrim ==
    \/ \E d \in Boundaries : SetBoundary(d)
    \/ \E b \in BOOLEAN : SetShow(b)
    \/ \E id \in Ids : SetId(id)
    \/ \E m \in Materials : SetMaterial(m)
    \/ \E frameState \in FrameStates : Update(frameState)
    \/ DestroySolo

SpecPrim == InitPrim /\ [][NextPrim]_vars

(***************************************************************************)
(* SpecDraw: the commands of one update, for every combination of passes.  *)
(* The frame state of the update is kept with the call.                    *)
(***************************************************************************)
DrawFrames == [mode : SceneModes, passes : [render : BOOLEAN, pick : BOOLEAN]]

Draw(frameState) ==
    /\ TouchedBy([(IF UpdateThrows(prims[Solo], frameState.mode)
                   THEN Threw("update", NoNote, NoInputs)
                   ELSE Call("update", NoNote, NoInputs))
                    EXCEPT !.frameState = Some(frameState)])
    /\ CanCreate(UpdateGpu(prims[Solo], gpu, frameState))
    /\ gpu' = UpdateGpu(prims[Solo], gpu, frameState)
    /\ prims' = [prims EXCEPT ![Solo] = UpdatePrimitive(@, frameState.mode)]

NextDraw ==
    \/ \E d \in Boundaries : SetBoundary(d)
    \/ \E b \in BOOLEAN : SetShow(b)
    \/ \E m \in Materials : SetMaterial(m)
    \/ \E frameState \in DrawFrames : Draw(frameState)

SpecDraw == InitPrim /\ [][NextDraw]_vars

(***************************************************************************)
(* SpecGeom: one primitive, its boundary, radius and transform.            *)
(***************************************************************************)
\* a boundary whose directions are unevenly spaced
Kite == << Spherical(0, Deg(30)), Spherical(Deg(90), Deg(30)), Spherical(Deg(240), Deg(30)) >>

GeomBoundaries == {Pair, Triangle, Kite, Square}

Radii == {0 - 1} \cup {look.radius : look \in Looks}

Matrices == {IDENTITY, fromRotationTranslation("q1", "p1")}

GeomFrames == { f \in FrameStates : f.mode = "SCENE3D" /\ f.passes.render /\ ~f.passes.pick }

\* radius is a plain field: any number is stored
SetRadius(r) ==
    /\ Touched("set")
    /\ prims' = [prims EXCEPT ![Solo].radius = r]
    /\ UNCHANGED gpu

\* modelMatrix is a plain field, also written in place by the synchronizers
SetModelMatrix(m) ==
    /\ Touched("set")
    /\ prims' = [prims EXCEPT ![Solo].modelMatrix = m]
    /\ UNCHANGED gpu

NextGeom ==
    \/ \E d \in GeomBoundaries : SetBoundary(d)
    \/ \E r \in Radii : SetRadius(r)
    \/ \E m \in Matrices : SetModelMatrix(m)
    \/ \E b \in BOOLEAN : SetShow(b)
    \/ \E frameState \in GeomFrames : Update(frameState)

SpecGeom == InitPrim /\ [][NextGeom]_vars

(***************************************************************************)
(* SpecFrame: a frame of the scene.  The conic synchronizer ticks, and the *)
(* scene updates the first primitive of the focus entity while the         *)
(* registry holds it; gpu is the render side of that primitive.            *)
(***************************************************************************)
\* a cone whose clock limits coincide is sampled in two directions
FrameShapes ==
    { BaseInput("conic").shape }
    \cup { [NoShape EXCEPT !.minimumClockAngle = Deg(4), !.maximumClockAngle = Deg(4),
                           !.innerHalfAngle = 0, !.outerHalfAngle = Deg(30)] }

\* what the focus entity resolves to: visible or hidden, with any of the cones
\* and with any radius, which the tick assigns as it resolves it
FrameInputs ==
    PlainInputs("conic")
    \cup { [BaseInput("conic") EXCEPT !.shape = shape, !.look.radius = r] :
             shape \in FrameShapes, r \in Radii }

TickFrame ==
    \E i \in FrameInputs :
        LET in == [e \in Ids |-> IF e = Focus THEN i ELSE BaseInput("conic")]
        IN  Ticked("conic", in) /\ UpdateConicAll(in) /\ UNCHANGED watch

\* scene.primitives.update(frameState) reaches the primitives it holds
DrawRegistered(frameState) == Solo \in primitives /\ Draw(frameState)

\* the collection reports the focus entity only
FocusNotes == { note \in PlainNotes : note.added \cup note.changed \cup note.removed = {Focus} }

InitFrame == InitWith({TRUE}) /\ kind = "conic"

NextFrame ==
    \/ \E note \in FocusNotes : Notify(note)
    \/ TickFrame
    \/ \E frameState \in FrameStates : DrawRegistered(frameState)

SpecFrame == InitFrame /\ [][NextFrame]_vars

(***************************************************************************)
(* SpecShade: the fragment shader of the volume (SensorVolume,             *)
(* CustomSensorVolumeFS), run on one fragment of the primitive.  Points    *)
(* are integer vectors; the scaled ellipsoid is the unit sphere.           *)
(***************************************************************************)
czm_ellipsoidInverseRadii == <<1, 1, 2>>

\* D * v, componentwise
scale(v) == [i \in 1..3 |-> czm_ellipsoidInverseRadii[i] * v[i]]

minus(a, b) == [i \in 1..3 |-> a[i] - b[i]]

\* dot(a, b) of the shading language
dotProduct(a, b) == a[1] * b[1] + a[2] * b[2] + a[3] * b[3]

\* inSensorShadow, taking the horizon test for the first conjunct as well
inSensorShadowHorizonOnly(coneVertexWC, pointWC, undefined) ==
    LET q == scale(coneVertexWC)
        test == dotProduct(q, q) - 1
        temp == minus(scale(pointWC), q)
        d == dotProduct(temp, q)
    IN  IF test < 0 \/ dotProduct(temp, temp) = 0
        THEN undefined
        ELSE d < 0 /\ d * d > test * dotProduct(temp, temp)

\* (d < -test) && ((d / length(temp)) < -sqrt(test)): the right operand is taken
\* only when the left one holds; a division by a zero length and the root of a
\* negative number are undefined, and "undefined" is what the comparison then
\* yields.  For test >= 0 and d < 0 the comparison of the quotient with the root
\* is the comparison of the squares.
inSensorShadow(coneVertexWC, pointWC, undefined) ==
    LET q == scale(coneVertexWC)
        test == dotProduct(q, q) - 1
        temp == minus(scale(pointWC), q)
        d == dotProduct(temp, q)
    IN  /\ d < 0 - test
        /\ IF test < 0 \/ dotProduct(temp, temp) = 0
           THEN undefined
           ELSE d < 0 /\ d * d > test * dotProduct(temp, temp)

ellipsoidSurfaceFunction(point) == dotProduct(scale(point), scale(point)) - 1

\* isOnBoundary(value, czm_epsilon3), value and delta in thousandths: with
\* GL_OES_standard_derivatives the derivative delta of value is at hand
isOnBoundary(value, width, derivative) ==
    LET tolerance == width
        temp == IF value < 0 THEN 0 - value ELSE value
    IN  IF derivative = None
        THEN temp < tolerance
        ELSE LET delta == derivative[1]
                 pixels == width * delta
             IN  \/ temp < tolerance /\ temp < pixels
                 \/ delta < 10 * tolerance /\ temp - delta < tolerance /\ temp < pixels

\* shade(isOnBoundary): the outline colour or the material's
shade(u, onBoundary) ==
    IF u.showIntersection /\ onBoundary THEN u.intersectionColor ELSE "getColor"

\* u_sensorRadius
sensorRadius(radius) == IF radius # Infinity THEN radius ELSE FAR

\* main(): the fragment is discarded inside the ellipsoid or in its shadow,
\* unless the volume shows through the ellipsoid, and beyond the radius; what
\* is left gets the colour of shade.  FAR is beyond every point of the model.
\* shadow is what inSensorShadow returned, if main got to call it; hides is for
\* a further reason to discard.
Fragment(u, coneVertexWC, positionWC, derivative, undefined, hides) ==
    LET ellipsoidValue == ellipsoidSurfaceFunction(positionWC)
        away == minus(positionWC, coneVertexWC)
        inside == ~u.showThroughEllipsoid /\ ellipsoidValue < 0
        asked == ~u.showThroughEllipsoid /\ ~inside
        shadow == inSensorShadow(coneVertexWC, positionWC, undefined)
        beyond == /\ u.sensorRadius # FAR
                  /\ dotProduct(away, away) > u.sensorRadius * u.sensorRadius
    IN  [ uniforms |-> u, sensorVertexWC |-> coneVertexWC, positionWC |-> positionWC,
          undefined |-> undefined,
          shadow |-> IF asked THEN Some(shadow) ELSE None,
          discarded |-> inside \/ (asked /\ shadow) \/ beyond \/ hides,
          color |-> shade(u, isOnBoundary(1000 * ellipsoidValue, u.intersectionWidth,
                                          derivative)) ]

\* main, discarding also what lies on an outline that is not shown
mainHidesOutline(u, coneVertexWC, positionWC, derivative, undefined) ==
    Fragment(u, coneVertexWC, positionWC, derivative, undefined,
             /\ ~u.showIntersection
             /\ isOnBoundary(1000 * ellipsoidSurfaceFunction(positionWC),
                             u.intersectionWidth, derivative))

main(u, coneVertexWC, positionWC, derivative, undefined) ==
    Fragment(u, coneVertexWC, positionWC, derivative, undefined, FALSE)

\* the uniform map of the primitive
Uniforms(p) ==
    [ showThroughEllipsoid |-> p.showThroughEllipsoid, showIntersection |-> p.showIntersection,
      sensorRadius |-> sensorRadius(p.radius), intersectionColor |-> p.intersectionColor,
      intersectionWidth |-> p.intersectionWidth ]

Apexes == { <<3, 0, 0>>, <<1, 0, 0>>, <<0, 0, 0>> }
Fragments == Apexes \cup { <<0 - 3, 0, 0>>, <<2, 0, 0>>, <<0, 0, 2>> }
Outlines == { <<TRUE, 1, "WHITE">>, <<TRUE, 5, "RED">>, <<FALSE, 1, "WHITE">> }
Derivatives == { None, Some(5) }
ShadeRadii == { 2, Infinity }

\* one fragment of the primitive, drawn with these parameters
Shade(through, radius, outline, coneVertexWC, positionWC, derivative, undefined) ==
    LET drawn == [prims[Solo] EXCEPT !.showThroughEllipsoid = through, !.radius = radius,
                                     !.showIntersection = outline[1],
                                     !.intersectionWidth = outline[2],
                                     !.intersectionColor = outline[3]]
    IN  /\ Touched("main")
        /\ prims' = [prims EXCEPT ![Solo] = drawn]
        /\ gpu' = [gpu EXCEPT !.fragment =
                      Some(main(Uniforms(drawn), coneVertexWC, positionWC, derivative, undefined))]

NextShade ==
    \E through \in BOOLEAN, radius \in ShadeRadii, outline \in Outlines,
       coneVertexWC \in Apexes, positionWC \in Fragments,
       derivative \in Derivatives, undefined \in BOOLEAN :
        Shade(through, radius, outline, coneVertexWC, positionWC, derivative, undefined)

SpecShade == InitPrim /\ [][NextShade]_vars

(***************************************************************************)
(* SpecCzml: processDirectionData, which turns the directions of a packet, *)
(* in one of four flat encodings, into the array of Spherical values the   *)
(* entity's directions property is set to.  Cartesian vectors lie along    *)
(* one of the axes.                                                        *)
(***************************************************************************)
\* the tuples a loop (i = 0; i < len; i += stride) reads from a list of whole tuples
RECURSIVE Tuples(_, _, _)
Tuples(flat, i, stride) ==
    IF i > Len(flat)
    THEN <<>>
    ELSE <<SubSeq(flat, i, i + stride - 1)>> \o Tuples(flat, i + stride, stride)

\* Cartesian3.magnitude, of a vector along an axis
magnitude(v) ==
    LET abs(a) == IF a < 0 THEN 0 - a ELSE a
    IN  abs(v[1]) + abs(v[2]) + abs(v[3])

\* Spherical.fromCartesian3: clock = atan2(y, x), cone = acos(z / magnitude)
fromCartesian3(v) ==
    [ clock |-> CASE v[2] > 0 -> Deg(90)
                  [] v[2] < 0 -> 0 - Deg(90)
                  [] v[1] < 0 -> Deg(180)
                  [] OTHER -> 0,
      cone |-> CASE v[3] > 0 -> 0
                 [] v[3] < 0 -> Deg(180)
                 [] OTHER -> Deg(90),
      magnitude |-> magnitude(v) ]

\* Spherical.normalize
normalize(spherical) == [spherical EXCEPT !.magnitude = 1]

Converted(flat, stride, value(_)) ==
    LET tuples == Tuples(flat, 1, stride)
    IN  [i \in 1..Len(tuples) |-> value(tuples[i])]

\* processDirectionData, looking for the spherical encodings last
processDirectionDataCartesianFirst(directions) ==
    LET values ==
          IF directions.unitCartesian # None
          THEN Some(Converted(directions.unitCartesian[1], 3,
                              LAMBDA t : normalize(fromCartesian3(t))))
          ELSE IF directions.cartesian # None
          THEN Some(Converted(directions.cartesian[1], 3, LAMBDA t : fromCartesian3(t)))
          ELSE IF directions.unitSpherical # None
          THEN Some(Converted(directions.unitSpherical[1], 2,
                              LAMBDA t : Spherical(t[1], t[2])))
          ELSE IF directions.spherical # None
          THEN Some(Converted(directions.spherical[1], 3,
                              LAMBDA t : [clock |-> t[1], cone |-> t[2], magnitude |-> t[3]]))
          ELSE None
    IN  [directions EXCEPT !.array = values]

\* processDirectionData: directions.array, from the first encoding the packet has
processDirectionData(directions) ==
    LET values ==
          IF directions.unitSpherical # None
          THEN Some(Converted(directions.unitSpherical[1], 2,
                              LAMBDA t : Spherical(t[1], t[2])))
          ELSE IF directions.spherical # None
          THEN Some(Converted(directions.spherical[1], 3,
                              LAMBDA t : [clock |-> t[1], cone |-> t[2], magnitude |-> t[3]]))
          ELSE IF directions.unitCartesian # None
          THEN Some(Converted(directions.unitCartesian[1], 3,
                              LAMBDA t : normalize(fromCartesian3(t))))
          ELSE IF directions.cartesian # None
          THEN Some(Converted(directions.cartesian[1], 3, LAMBDA t : fromCartesian3(t)))
          ELSE None
    IN  [directions EXCEPT !.array = values]

\* the directions of a packet: each encoding absent, or a flat list of whole tuples
Packets ==
    [ unitSpherical : { None, Some(<<>>), Some(<<0, Deg(30)>>),
                        Some(<<0, Deg(30), Deg(120), Deg(30), Deg(240), Deg(30)>>) },
      spherical : { None, Some(<<>>), Some(<<Deg(90), Deg(45), 2>>),
                    Some(<<Deg(90), Deg(45), 2, Deg(180), Deg(45), 3>>) },
      unitCartesian : { None, Some(<<1, 0, 0>>), Some(<<0, 2, 0>>),
                        Some(<<0, 1, 0, 0, 0, 1, 0 - 1, 0, 0>>) },
      cartesian : { None, Some(<<0, 0, 3>>), Some(<<2, 0, 0, 0, 0 - 2, 0>>) },
      array : { None } ]

\* a packet arrives for the entity: the conversion, and the value its directions
\* property gets
ProcessDirections(packet) ==
    LET directions == processDirectionData(packet)
        property == IF directions.array = None
                    THEN NoInputs
                    ELSE [NoInputs EXCEPT ![Focus].shape.directionsDefined = TRUE,
                                          ![Focus].shape.directions = directions.array[1]]
    IN  /\ kind = "custom"
        /\ last' = Call("processDirectionData", directions, property)
        /\ UNCHANGED <<kind, listeners, entitiesToVisualize, hash, prims, primitives,
                       destroyPrimitives, destroyed, watch, gpu>>

InitCzml == InitWith({TRUE}) /\ kind = "custom"

NextCzml == \E packet \in Packets : ProcessDirections(packet)

SpecCzml == InitCzml /\ [][NextCzml]_vars

(***************************************************************************)
(* SpecShape: the two samplers, applied to one primitive: the conic one    *)
(* through computeDirections, the rectangular one through the half-angle   *)
(* setters.                                                                *)
(***************************************************************************)
ClockLimits == { <<0, TWO_PI>>, <<0, Deg(4)>>, <<0, Deg(10)>>, <<Deg(2), Deg(10)>>,
                 <<0, Deg(358)>>, <<Deg(10), Deg(10)>>, <<Deg(10), Deg(2)>>, <<TWO_PI, 0>> }

SampledShapes ==
    { [NoShape EXCEPT !.minimumClockAngle = limits[1], !.maximumClockAngle = limits[2],
                      !.innerHalfAngle = inner, !.outerHalfAngle = outer] :
        limits \in ClockLimits, inner \in {0, Deg(10)}, outer \in {Deg(30), Deg(45)} }

HalfAngles == {Deg(30), Deg(45), Milli(89500), Deg(90), Deg(100)}

Sample(shape) ==
    /\ kind = "conic"
    /\ TouchedBy(Call("computeDirections", NoNote, [NoInputs EXCEPT ![Focus].shape = shape]))
    /\ prims' = [prims EXCEPT ![Solo] =
                    SetDirections(@, computeDirections(@.directions,
                        shape.minimumClockAngle, shape.maximumClockAngle,
                        shape.innerHalfAngle, shape.outerHalfAngle))]
    /\ UNCHANGED gpu

AssignXHalfAngle(value) ==
    LET in == [NoInputs EXCEPT ![Focus].shape.xHalfAngle = value]
    IN  /\ kind = "rect"
        /\ TouchedBy(IF HalfAngleThrows(value) THEN Threw("xHalfAngle", NoNote, in)
                                               ELSE Call("xHalfAngle", NoNote, in))
        /\ prims' = [prims EXCEPT ![Solo] = SetXHalfAngle(@, value)]
        /\ UNCHANGED gpu

AssignYHalfAngle(value) ==
    LET in == [NoInputs EXCEPT ![Focus].shape.yHalfAngle = value]
    IN  /\ kind = "rect"
        /\ TouchedBy(IF HalfAngleThrows(value) THEN Threw("yHalfAngle", NoNote, in)
                                               ELSE Call("yHalfAngle", NoNote, in))
        /\ prims' = [prims EXCEPT ![Solo] = SetYHalfAngle(@, value)]
        /\ UNCHANGED gpu

InitShape ==
    /\ kind \in {"conic", "rect"}
    /\ entitiesToVisualize = {}
    /\ hash = [e \in Ids |-> NoEntry]
    /\ prims = [pid \in PrimIds |->
                  IF pid # Solo THEN NoPrimitive
                  ELSE IF kind = "conic" THEN CustomSensorVolume
                                         ELSE RectangularPyramidSensorVolume]
    /\ primitives = {Solo}
    /\ destroyPrimitives = TRUE
    /\ destroyed = FALSE
    /\ last = Call("new", NoNote, NoInputs)
    /\ watch = [e \in Ids |-> "idle"]
    /\ listeners = {}
    /\ gpu = NoGpu

NextShape ==
    \/ \E shape \in SampledShapes : Sample(shape)
    \/ \E value \in HalfAngles : AssignXHalfAngle(value)
    \/ \E value \in HalfAngles : AssignYHalfAngle(value)
    \/ PrimitiveUpdate(Solo)

SpecShape == InitShape /\ [][NextShape]_vars

(***************************************************************************)
(* Properties.                                                             *)
(***************************************************************************)
HasEntry(e) == hash[e].defined
PrimOf(e) == prims[hash[e].primitive]
PidsOf(e) == {pid \in PrimIds : pid[1] = e}
Created(e) == {pid \in PidsOf(e) : prims[pid].state # "none"}
RegistryOf(e) == {pid \in primitives : pid[1] = e}

\* The values a tick resolved for e are the ones already applied to e's shown primitive.
Applied(e, i) ==
    /\ HasEntry(e)
    /\ PrimOf(e).show
    /\ hash[e].position = i.position
    /\ hash[e].orientation = i.orientation
    /\ PrimOf(e).radius = i.look.radius
    /\ PrimOf(e).lateralSurfaceMaterial = i.look.material
    /\ CASE kind = "conic" ->
              /\ hash[e].minimumClockAngle = Some(i.shape.minimumClockAngle)
              /\ hash[e].maximumClockAngle = Some(i.shape.maximumClockAngle)
              /\ hash[e].innerHalfAngle = Some(i.shape.innerHalfAngle)
              /\ hash[e].outerHalfAngle = Some(i.shape.outerHalfAngle)
         [] kind = "custom" -> PrimOf(e).directions = i.shape.directions
         [] kind = "rect" ->
              /\ PrimOf(e).xHalfAngle = i.shape.xHalfAngle
              /\ PrimOf(e).yHalfAngle = i.shape.yHalfAngle

\* C1: diffing idempotence, for each of the three synchronizers: a tick that
\* resolves, for a tracked visible entity, the position, orientation, shape
\* parameters, radius and material the previous tick applied leaves the
\* primitive's boundary-dirty flag as it was, so the primitive update that
\* follows rebuilds nothing.
C1_DiffingIdempotence ==
    [][\A e \in Ids :
         (/\ last'.op = "tick"
          /\ e \in entitiesToVisualize
          /\ Show(kind, last'.in[e])
          /\ Applied(e, last'.in[e]))
         => prims'[hash[e].primitive].directionsDirty = PrimOf(e).directionsDirty]_vars

\* C2: an entity reported as added and then as removed, with no tick in between
\* that sees it visible, never gets a primitive: from the report of the addition
\* on, and for as long as it is not reported again, no primitive is created for
\* it and the registry gains nothing on its behalf.
C2_AddedThenRemoved ==
    [][\A e \in Ids :
         watch'[e] \in {"added", "gone"}
         => /\ Created(e)' = Created(e)
            /\ RegistryOf(e)' \subseteq RegistryOf(e)]_vars

C2_Witness ==
    \E e \in Ids :
        /\ watch[e] = "gone"
        /\ last.op = "tick"
        /\ Created(e) = {}
        /\ \E o \in Ids \ {e} : HasEntry(o)

ReportsComplete(c, e) ==
    /\ c.op = "notify"
    /\ e \in c.note.added \cup c.note.changed
    /\ e \notin c.note.removed
    /\ c.note.def[e].sensor /\ c.note.def[e].position /\ c.note.def[e].orientation

\* C3, as claimed: right after a notification whose added or mutated list holds
\* a complete entity, the synchronizer holds an entry with a primitive for it.
C3_EntryWithoutTick ==
    \A e \in Ids :
        ReportsComplete(last, e) => (HasEntry(e) /\ PrimOf(e).state = "live")

\* C3, amended: the notification only tracks the entity (its entry, primitives
\* and registry membership stay as they were); the entry and its primitive are
\* there after the first tick that sees the tracked entity visible.
C3_TrackedThenEntry ==
    [][\A e \in Ids :
         /\ ReportsComplete(last', e)
            => /\ e \in entitiesToVisualize'
               /\ hash'[e] = hash[e]
               /\ \A pid \in PidsOf(e) : prims'[pid] = prims[pid]
               /\ RegistryOf(e)' = RegistryOf(e)
         /\ (last'.op = "tick" /\ e \in entitiesToVisualize /\ Show(kind, last'.in[e]))
            => /\ hash'[e].defined
               /\ prims'[hash'[e].primitive].state = "live"
               /\ hash'[e].primitive \in primitives']_vars

C3_Witness ==
    \E e \in Ids :
        /\ ReportsComplete(last, e)
        /\ e \in entitiesToVisualize
        /\ ~HasEntry(e)
        /\ Created(e) = {}

ReportsIncomplete(c, e) ==
    /\ c.op = "notify"
    /\ e \in c.note.changed
    /\ ~(c.note.def[e].sensor /\ c.note.def[e].position /\ c.note.def[e].orientation)

Retired(e) ==
    /\ e \notin entitiesToVisualize'
    /\ ~hash'[e].defined
    /\ RegistryOf(e)' = {}
    /\ hash[e].defined
       => /\ prims'[hash[e].primitive].state = "destroyed"
          /\ prims'[hash[e].primitive].destroyCalls = 1

\* C4: a tracked entity reported as mutated and no longer complete is retired:
\* its primitive leaves the registry and is destroyed, its entry is dropped and
\* it is untracked; a tick leaves an untracked entity alone, and only a
\* notification that reports it complete tracks it again.
C4_IncompleteRetires ==
    [][\A e \in Ids :
         /\ ReportsIncomplete(last', e) => Retired(e)
         /\ (last'.op = "tick" /\ e \notin entitiesToVisualize)
            => /\ hash'[e] = hash[e]
               /\ \A pid \in PidsOf(e) : prims'[pid] = prims[pid]
               /\ RegistryOf(e)' = RegistryOf(e)
         /\ (e \notin entitiesToVisualize /\ e \in entitiesToVisualize')
            => ReportsComplete(last', e)]_vars

C4_Witness ==
    \E e \in Ids :
        /\ ReportsIncomplete(last, e)
        /\ ~last.note.def[e].orientation
        /\ prims[<<e, 1>>].state = "destroyed"
        /\ Cardinality(Created(e)) = 1

\* C5: an entity reported as removed is retired whatever its completeness or
\* visibility: its primitive leaves the registry and is destroyed, its entry is
\* dropped, it is untracked, and the registry holds no primitive made for it.
C5_RemovedRetires ==
    [][\A e \in Ids :
         (last'.op = "notify" /\ e \in last'.note.removed) => Retired(e)]_vars

C5_Witness ==
    \E e \in Ids :
        /\ last.op = "notify"
        /\ e \in last.note.removed
        /\ ~destroyPrimitives
        /\ prims[<<e, 1>>].state = "destroyed"
        /\ Cardinality(Created(e)) = 1

\* C6, as claimed: after a tick, the primitive of every tracked entity that has
\* one shows exactly when the entity is showing, available, its show property
\* resolves true and position and orientation resolve.
C6_ShowIffVisible ==
    last.op = "tick" =>
        \A e \in entitiesToVisualize :
            HasEntry(e) =>
                (PrimOf(e).show <=>
                    (/\ last.in[e].isShowing
                     /\ last.in[e].isAvailable
                     /\ last.in[e].show
                     /\ last.in[e].position # Undefined
                     /\ last.in[e].orientation # Undefined))

\* C6, amended: the same, and for the custom-pattern kind the direction list
\* has to resolve as well.
C6_ShowIffVisibleAndShaped ==
    last.op = "tick" =>
        \A e \in entitiesToVisualize :
            HasEntry(e) =>
                (PrimOf(e).show <=>
                    (/\ last.in[e].isShowing
                     /\ last.in[e].isAvailable
                     /\ last.in[e].show
                     /\ last.in[e].position # Undefined
                     /\ last.in[e].orientation # Undefined
                     /\ (kind = "custom" => last.in[e].shape.directionsDefined)))

C6_Witness ==
    /\ kind = "custom"
    /\ last.op = "tick"
    /\ HasEntry(Focus)
    /\ ~last.in[Focus].shape.directionsDefined
    /\ last.in[Focus].isShowing /\ last.in[Focus].isAvailable /\ last.in[Focus].show
    /\ ~PrimOf(Focus).show

\* C7: a tick in which a tracked entity's visibility evaluates false changes
\* nothing of that entity but the show flag of its existing primitive: no
\* primitive is created, and the entry's snapshot and the primitive's transform,
\* boundary, dirty flag, radius, material, intersection colour and width stay.
C7_HiddenTickOnlyHides ==
    [][\A e \in Ids :
         (last'.op = "tick" /\ e \in entitiesToVisualize /\ ~Show(kind, last'.in[e]))
         => /\ hash'[e] = hash[e]
            /\ RegistryOf(e)' = RegistryOf(e)
            /\ \A pid \in PidsOf(e) :
                 prims'[pid] = IF hash[e].defined /\ pid = hash[e].primitive
                               THEN [prims[pid] EXCEPT !.show = FALSE]
                               ELSE prims[pid]]_vars

C7_Witness ==
    /\ last.op = "tick"
    /\ HasEntry(Focus)
    /\ ~Show(kind, last.in[Focus])
    /\ ~PrimOf(Focus).show
    /\ PrimOf(Focus).directionsDirty
    /\ hash[Focus].position = "p2"
    /\ PrimOf(Focus).modelMatrix = fromRotationTranslation("q1", "p2")

\* C8: after destroy() of a synchronizer, whatever notifications and ticks came
\* before, every primitive it ever added to the registry is out of the registry
\* and destroyed (by one destroy call), and its entity-to-entry map is empty.
C8_Teardown ==
    destroyed =>
        /\ primitives = {}
        /\ \A e \in Ids : ~HasEntry(e)
        /\ \A pid \in PrimIds :
             prims[pid].state # "none"
             => (prims[pid].state = "destroyed" /\ prims[pid].destroyCalls = 1)

C8_Witness ==
    /\ last.op = "destroy"
    /\ entitiesToVisualize = Ids
    /\ \A e \in Ids : prims[<<e, 1>>].state = "destroyed" /\ Cardinality(Created(e)) = 1

\* C9: once destroy() of a primitive has returned, every vertex array a rebuild
\* built and every pick id an id change created has had exactly one destroy
\* call, whatever boundary changes, id changes and updates came before.
C9_OneDestroyPerResource ==
    prims[Solo].state = "destroyed" =>
        /\ \A i \in 1..Len(gpu.vertexArrays) : gpu.vertexArrays[i].destroyCalls = 1
        /\ \A i \in 1..Len(gpu.pickIds) : gpu.pickIds[i].destroyCalls = 1

\* C10: after an update of a shown primitive in 3D that leaves a boundary of
\* fewer than 3 directions processed, the primitive holds no mesh and the
\* update has pushed no draw command, also when an earlier boundary built one.
C10_NoMeshNoDraw ==
    (/\ last.op = "update"
     /\ prims[Solo].show
     /\ prims[Solo].mode = "SCENE3D"
     /\ ~prims[Solo].directionsDirty
     /\ Len(prims[Solo].directions) < 3)
    => (gpu.vertexArray = 0 /\ gpu.commandList = <<>>)

\* C11: whenever an update emits draw commands for a boundary polygon, the mesh
\* and the local bounding sphere it uses are the ones of the primitive's current
\* boundary and current radius, so a change of radius alone regenerates the mesh
\* on the next shown update.
C11_MeshFollowsRadius ==
    (/\ last.op = "update"
     /\ gpu.commandList # <<>>
     /\ Len(prims[Solo].directions) >= 3)
    => /\ gpu.vertexArrays[gpu.vertexArray].positions = computePositions(prims[Solo])
       /\ gpu.boundingSphere =
            fromPoints(boundingVolumePositions(prims[Solo]))

\* C12: every colour command and every pick command an update emits uses a
\* shader program compiled from the primitive's current surface material,
\* whatever updates came between the change of material and the emission.
C12_ShadersFollowMaterial ==
    last.op = "update" =>
        \A i \in 1..Len(gpu.commandList) :
            IF gpu.commandList[i].command = "pick"
            THEN gpu.pickShaderProgram = Some(prims[Solo].lateralSurfaceMaterial)
            ELSE gpu.frontShaderProgram = Some(prims[Solo].lateralSurfaceMaterial)

\* the fields of the primitive other than the dirty flag
Values(p) == [p EXCEPT !.directionsDirty = FALSE]

\* C13: a setter given the value the primitive already holds (boundary, radius,
\* transform, visibility) leaves the boundary-dirty flag as it was.
C13_SettersIdempotent ==
    [][(last'.op = "set" /\ Values(prims'[Solo]) = Values(prims[Solo]))
       => prims'[Solo].directionsDirty = prims[Solo].directionsDirty]_vars

\* C14: a negative radius is rejected where it is assigned, so a primitive never
\* holds one, and errors are raised by setters only, never by an update.
C14_ErrorsOnlyAtSetters ==
    /\ prims[Solo].state = "live" => prims[Solo].radius >= 0
    /\ last.threw => last.op = "set"

\* the half-angle setter of one axis: what it was given, and what it did
Assigned15(op, v, old, new, other, otherAfter, p, q, threw) ==
    IF v > PI_OVER_TWO
    THEN threw /\ q = p
    ELSE /\ ~threw
         /\ new = v
         /\ otherAfter = other
         /\ Len(q.directions) = 4
         /\ q.directionsDirty = (p.directionsDirty \/ v # old)

\* C15: a half-angle above 90 degrees fails at the setter and leaves the stored
\* half-angles, the four directions and the dirty flag as they were; a value of
\* at most 90 degrees is accepted and stored as given, also between 89 and 90
\* degrees, where only the tangents are taken of 89 degrees.
C15_HalfAngleSetter ==
    [][LET p == prims[Solo]
           q == prims'[Solo]
           shape == last'.in[Focus].shape
       IN  /\ last'.op = "xHalfAngle"
              => /\ Assigned15("x", shape.xHalfAngle, p.xHalfAngle, q.xHalfAngle,
                               p.yHalfAngle, q.yHalfAngle, p, q, last'.threw)
                 /\ q.directions = updateDirections(<<>>, Min(q.xHalfAngle, Deg(89)),
                                                    Min(q.yHalfAngle, Deg(89)))
           /\ last'.op = "yHalfAngle"
              => /\ Assigned15("y", shape.yHalfAngle, p.yHalfAngle, q.yHalfAngle,
                               p.xHalfAngle, q.xHalfAngle, p, q, last'.threw)
                 /\ q.directions = updateDirections(<<>>, Min(q.xHalfAngle, Deg(89)),
                                                    Min(q.yHalfAngle, Deg(89)))]_vars

C15_Witness ==
    /\ last.op = "xHalfAngle"
    /\ last.threw
    /\ last.in[Focus].shape.xHalfAngle = Deg(100)
    /\ prims[Solo].xHalfAngle = Milli(89500)
    /\ ~prims[Solo].directionsDirty

PastMeshCheck ==
    /\ last.op = "update"
    /\ ~last.threw
    /\ prims[Solo].show
    /\ prims[Solo].mode = "SCENE3D"
    /\ gpu.vertexArray # 0

\* C16: after every update that gets past the mesh-present check, the cached
\* matrix equals the current model matrix and the world bounding sphere is the
\* local one transformed by the current model matrix, also when the matrix was
\* changed while the primitive was hidden or without a mesh.
C16_TransformFollowsMatrix ==
    PastMeshCheck
    => /\ gpu.modelMatrix = Some(prims[Solo].modelMatrix)
       /\ gpu.boundingSphereWC = Some(transform(gpu.boundingSphere, prims[Solo].modelMatrix))

C16_Witness ==
    /\ PastMeshCheck
    /\ ~prims[Solo].directionsDirty
    /\ prims[Solo].modelMatrix # IDENTITY
    /\ gpu.modelMatrix = Some(prims[Solo].modelMatrix)
    /\ Len(gpu.vertexArrays) = 1

\* the factor by which a direction is extended to clear a neighbour
Clearance(a, b) == (Unit * Unit) \div CosHalf(dot(fromSpherical(a), fromSpherical(b)))

\* C20: in every mesh built from N >= 3 directions with a radius r > 0 (FAR for
\* an infinite one), vertex j lies along direction j at r / cos(theta / 2) >= r,
\* theta the larger of the angles to the two neighbouring directions.
C20_ExtensionFormula ==
    \A i \in 1..Len(gpu.vertexArrays) :
        LET mesh == gpu.vertexArrays[i]
            N == Len(mesh.positions)
            at(j) == mesh.positions[j].direction
            c1(j) == Clearance(at(IF j = 1 THEN N ELSE j - 1), at(j))
            c2(j) == Clearance(at(j), at(IF j = N THEN 1 ELSE j + 1))
        IN  /\ N = mesh.triangles /\ N >= 3
            /\ \A j \in 1..N :
                 /\ mesh.positions[j].radius = (IF mesh.radius = Infinity THEN FAR ELSE mesh.radius)
                 /\ mesh.positions[j].radius > 0
                 /\ mesh.positions[j].extension >= Unit
                 /\ mesh.positions[j].extension = (IF c1(j) > c2(j) THEN c1(j) ELSE c2(j))

C20_Witness ==
    \E i \in 1..Len(gpu.vertexArrays) :
        LET mesh == gpu.vertexArrays[i]
        IN  /\ mesh.radius = Infinity
            /\ mesh.positions[1].radius = FAR
            /\ mesh.positions[1].extension # mesh.positions[2].extension
            /\ mesh.positions[2].extension > Unit

Sampled(limits) ==
    /\ last.op = "computeDirections"
    /\ last.in[Focus].shape.minimumClockAngle = limits[1]
    /\ last.in[Focus].shape.maximumClockAngle = limits[2]

\* C17: for clock limits 0 and 2 pi and any inner and outer half-angle, the
\* conic sampler leaves ceil(2 pi / step) = 180 directions, at the clock angles
\* the additions of the step run through from 0, in increasing order, all with
\* the outer half-angle for cone and magnitude 1.
C17_FullCircle ==
    Sampled(<<0, TWO_PI>>) =>
        LET d == prims[Solo].directions
        IN  /\ Len(d) = (TWO_PI + angleStep - 1) \div angleStep
            /\ d[1].clock = 0
            /\ \A k \in 1..(Len(d) - 1) : d[k + 1].clock = Plus(d[k].clock)
            /\ \A k \in 1..Len(d) :
                 d[k].cone = last.in[Focus].shape.outerHalfAngle /\ d[k].magnitude = 1

\* d[from..to] runs through the additions (or subtractions) of the step from
\* start, all its clocks on the near side of limit, and the next one is not
RunUp(d, from, to, start, limit, cone) ==
    /\ to >= from
    /\ d[from].clock = start
    /\ \A k \in from..to : d[k].clock < limit /\ d[k].cone = cone /\ d[k].magnitude = 1
    /\ \A k \in from..(to - 1) : d[k + 1].clock = Plus(d[k].clock)
    /\ Plus(d[to].clock) >= limit

RunDown(d, from, to, start, limit, cone) ==
    /\ to >= from
    /\ d[from].clock = start
    /\ \A k \in from..to : d[k].clock > limit /\ d[k].cone = cone /\ d[k].magnitude = 1
    /\ \A k \in from..(to - 1) : d[k + 1].clock = Minus(d[k].clock)
    /\ Minus(d[to].clock) <= limit

\* C18: for clock limits other than (0, 2 pi) with minClock < maxClock the conic
\* sampler leaves exactly: the outer samples from minClock in steps while below
\* maxClock, one outer sample at maxClock, and then either the inner samples
\* from maxClock down in steps while above minClock and one at minClock, or,
\* for a zero inner half-angle, one sample at maxClock with cone 0; nothing of
\* an earlier, longer polygon is left behind.
C18_Wedge ==
    (/\ last.op = "computeDirections"
     /\ ~Sampled(<<0, TWO_PI>>)
     /\ last.in[Focus].shape.minimumClockAngle < last.in[Focus].shape.maximumClockAngle)
    => LET d == prims[Solo].directions
           shape == last.in[Focus].shape
           min == shape.minimumClockAngle
           max == shape.maximumClockAngle
       IN  \E a \in 1..Len(d) :
             /\ RunUp(d, 1, a, min, max, shape.outerHalfAngle)
             /\ Len(d) >= a + 2
             /\ d[a + 1] = Spherical(max, shape.outerHalfAngle)
             /\ IF shape.innerHalfAngle # 0
                THEN \E b \in (a + 2)..(Len(d) - 1) :
                       /\ RunDown(d, a + 2, b, max, min, shape.innerHalfAngle)
                       /\ d[b + 1] = Spherical(min, shape.innerHalfAngle)
                       /\ Len(d) = b + 1
                ELSE /\ d[a + 2] = Spherical(max, 0)
                     /\ Len(d) = a + 2

C18_Witness ==
    /\ Sampled(<<Deg(2), Deg(10)>>)
    /\ last.in[Focus].shape.innerHalfAngle = Deg(10)
    /\ prims[Solo].directions[5] = Spherical(Deg(10), Deg(30))
    /\ prims[Solo].directions[6] = Spherical(Deg(10), Deg(10))
    /\ prims[Solo].directions[Len(prims[Solo].directions)] = Spherical(Deg(2), Deg(10))

\* atan(tan x / tan y) and atan(sqrt(tan^2 x + tan^2 y)) to the millidegree, of the
\* angles themselves
AtanRatio(x, y) ==
    IF x <= Deg(89) /\ y <= Deg(89) THEN RectTheta(x, y)
    ELSE CASE x = y -> Milli(45000)
           [] y = Deg(90) -> 0
           [] x = Deg(90) -> Milli(90000)
           [] x = Deg(30) /\ y = Milli(89500) -> Milli(289)
           [] x = Deg(45) /\ y = Milli(89500) -> Milli(500)
           [] x = Milli(89500) /\ y = Deg(30) -> Milli(89711)
           [] x = Milli(89500) /\ y = Deg(45) -> Milli(89500)

AtanHypot(x, y) ==
    IF x <= Deg(89) /\ y <= Deg(89) THEN RectCone(x, y)
    ELSE CASE x = Deg(90) \/ y = Deg(90) -> Milli(90000)
           [] x = Milli(89500) /\ y = Milli(89500) -> Milli(89646)
           [] OTHER -> Milli(89500)

Corners(theta, cone) ==
    << Spherical(theta, cone), Spherical(Deg(180) - theta, cone),
       Spherical(Deg(180) + theta, cone), Spherical(0 - theta, cone) >>

RectangularPrimitive == kind = "rect" /\ prims[Solo].state = "live"

\* C19, as claimed: a rectangular primitive's boundary is, after construction
\* and every half-angle change, the 4 directions at clock theta, 180 - theta,
\* 180 + theta, -theta with theta = atan(tanX / tanY), all with cone
\* atan(sqrt(tanX^2 + tanY^2)) of its half-angles and magnitude 1; for 45 and 45
\* degrees the cone is 54.736 degrees.
C19_FourCorners ==
    RectangularPrimitive =>
        LET p == prims[Solo]
        IN  /\ p.directions = Corners(AtanRatio(p.xHalfAngle, p.yHalfAngle),
                                      AtanHypot(p.xHalfAngle, p.yHalfAngle))
            /\ (p.xHalfAngle = Deg(45) /\ p.yHalfAngle = Deg(45))
               => p.directions[1].cone = Milli(54736)

\* C19, amended: the same, with the tangents taken of the half-angles capped at
\* 89 degrees.
C19_FourCornersCapped ==
    RectangularPrimitive =>
        LET p == prims[Solo]
            x == Min(p.xHalfAngle, Deg(89))
            y == Min(p.yHalfAngle, Deg(89))
        IN  /\ p.directions = Corners(AtanRatio(x, y), AtanHypot(x, y))
            /\ (p.xHalfAngle = Deg(45) /\ p.yHalfAngle = Deg(45))
               => p.directions[1].cone = Milli(54736)

C19_Witness ==
    /\ RectangularPrimitive
    /\ last.op = "yHalfAngle"
    /\ prims[Solo].xHalfAngle = Deg(45)
    /\ prims[Solo].yHalfAngle = Deg(45)
    /\ prims[Solo].directions[3] = Spherical(Deg(225), Milli(54736))

\* the mesh in use is the one of the four directions at clock 0, 90, 180 and 270
\* degrees with cone 45 degrees, at radius 10
SquareMesh ==
    /\ gpu.vertexArray # 0
    /\ gpu.vertexArrays[gpu.vertexArray].positions =
           computePositions([CustomSensorVolume EXCEPT !.directions = Square, !.radius = 10])

Near(a, b) == a - b <= 5 /\ b - a <= 5

\* C21, as claimed: for the boundary of 4 directions at clock 0, 90, 180, 270
\* degrees with cone 45 degrees and radius 10, the radius of the mesh's bounding
\* sphere is 10 / cos(45 degrees / 2), to a small tolerance (5 thousandths of r).
C21_SphereOfSquare ==
    SquareMesh => Near(gpu.boundingSphere[1].radius, (1000 * Unit) \div CosHalf(Cos(Deg(45))))

\* C21, amended: for that boundary and radius, each vertex lies at
\* 10 / cos(60 degrees / 2) from the apex, 60 degrees being the angle between
\* neighbouring directions, and the bounding sphere over the origin and the four
\* vertices has that distance times sin(45 degrees) for radius and is centred on
\* the axis, to the same tolerance.
C21_SphereOfSquareVertices ==
    SquareMesh =>
        LET sphere == gpu.boundingSphere[1]
            extended == (Unit * Unit) \div CosHalf(Unit \div 2)
        IN  /\ Len(sphere.around) = 5
            /\ sphere.around[1] = ZERO
            /\ \A k \in 2..5 : /\ sphere.around[k].radius = 10
                               /\ Near(sphere.around[k].extension, extended)
            /\ Near(sphere.radius, (extended * Sin(Deg(45))) \div ((Unit * Unit) \div 1000))
            /\ Near(sphere.center[1], 0) /\ Near(sphere.center[2], 0)
            /\ Near(sphere.center[3], sphere.radius)

C21_Witness ==
    /\ SquareMesh
    /\ last.op = "update"
    /\ prims[Solo].radius = 10
    /\ prims[Solo].directions = Square
    /\ gpu.commandList # <<>>
    /\ gpu.boundingSphere[1].radius = 816

\* the fragment last shaded, and what inSensorShadow had of it
Shaded == last.op = "main" /\ gpu.fragment # None
ShadedTest == LET q == scale(gpu.fragment[1].sensorVertexWC) IN dotProduct(q, q) - 1
ShadedD ==
    LET q == scale(gpu.fragment[1].sensorVertexWC)
    IN  dotProduct(minus(scale(gpu.fragment[1].positionWC), q), q)

\* C22: inSensorShadow(apex, point) returns false for an apex strictly outside
\* the scaled ellipsoid (test > 0) and the point at the apex, and returns false
\* whenever d = dot(scale(point) - q, q) is not below -test.
C22_NoShadowAtApex ==
    (Shaded /\ gpu.fragment[1].shadow # None)
    => /\ (ShadedTest > 0 /\ gpu.fragment[1].positionWC = gpu.fragment[1].sensorVertexWC)
          => gpu.fragment[1].shadow = Some(FALSE)
       /\ ShadedD >= 0 - ShadedTest => gpu.fragment[1].shadow = Some(FALSE)

C22_Witness ==
    /\ Shaded
    /\ gpu.fragment[1].sensorVertexWC = <<3, 0, 0>>
    /\ gpu.fragment[1].positionWC = <<3, 0, 0>>
    /\ gpu.fragment[1].undefined
    /\ gpu.fragment[1].shadow = Some(FALSE)
    /\ ~gpu.fragment[1].discarded

\* two fragments that agree on position, apex, radius and the through-ellipsoid
\* flag, shaded on the same platform
SameButOutline(f, g) ==
    /\ f.positionWC = g.positionWC
    /\ f.sensorVertexWC = g.sensorVertexWC
    /\ f.uniforms.sensorRadius = g.uniforms.sensorRadius
    /\ f.uniforms.showThroughEllipsoid = g.uniforms.showThroughEllipsoid
    /\ f.undefined = g.undefined

\* C23: two evaluations of the fragment shader that agree on position, apex,
\* radius and the through-ellipsoid flag reach the same discard decision,
\* whatever their intersection width, intersection colour and show-intersection
\* flag are; these select the colour only.
C23_OutlineIsAdvisory ==
    [][(/\ gpu.fragment # None
        /\ gpu'.fragment # None
        /\ SameButOutline(gpu.fragment[1], gpu'.fragment[1]))
       => gpu'.fragment[1].discarded = gpu.fragment[1].discarded]_vars

C23_Witness ==
    /\ Shaded
    /\ gpu.fragment[1].positionWC = <<1, 0, 0>>
    /\ gpu.fragment[1].sensorVertexWC = <<3, 0, 0>>
    /\ gpu.fragment[1].uniforms.showIntersection
    /\ gpu.fragment[1].uniforms.intersectionWidth = 5
    /\ gpu.fragment[1].color = "RED"
    /\ ~gpu.fragment[1].discarded

\* the packet last processed, and the array it was given
Processed == last.op = "processDirectionData"

\* the flat list of the first encoding the packet carries, in the order
\* unitSpherical, spherical, unitCartesian, cartesian, as <<name, list>>
FirstEncoding(packet) ==
    CASE packet.unitSpherical # None -> <<"unitSpherical", packet.unitSpherical[1]>>
      [] packet.unitSpherical = None /\ packet.spherical # None
           -> <<"spherical", packet.spherical[1]>>
      [] packet.unitSpherical = None /\ packet.spherical = None /\ packet.unitCartesian # None
           -> <<"unitCartesian", packet.unitCartesian[1]>>
      [] OTHER -> <<"cartesian", packet.cartesian[1]>>

Carries(packet) ==
    \/ packet.unitSpherical # None \/ packet.spherical # None
    \/ packet.unitCartesian # None \/ packet.cartesian # None

\* C24: a flat list of k unit-spherical pairs, k spherical triples, k
\* unit-Cartesian triples or k Cartesian triples becomes exactly k directions in
\* the order of the list, of magnitude 1 for the two unit encodings, and of a
\* packet with more than one encoding only the first in the order unitSpherical,
\* spherical, unitCartesian, cartesian is used.
C24_DirectionIngestion ==
    (Processed /\ Carries(last.note))
    => LET first == FirstEncoding(last.note)
           flat == first[2]
           array == last.note.array[1]
           stride == IF first[1] = "unitSpherical" THEN 2 ELSE 3
           k == Len(flat) \div stride
       IN  /\ last.note.array # None
           /\ Len(array) = k
           /\ last.in[Focus].shape.directions = array
           /\ \A i \in 1..k :
                LET at(c) == flat[stride * (i - 1) + c]
                IN  CASE first[1] = "unitSpherical" ->
                           array[i] = [clock |-> at(1), cone |-> at(2), magnitude |-> 1]
                      [] first[1] = "spherical" ->
                           array[i] = [clock |-> at(1), cone |-> at(2), magnitude |-> at(3)]
                      [] first[1] = "unitCartesian" ->
                           array[i] = [fromCartesian3(<<at(1), at(2), at(3)>>)
                                          EXCEPT !.magnitude = 1]
                      [] OTHER ->
                           array[i] = fromCartesian3(<<at(1), at(2), at(3)>>)

C24_Witness ==
    /\ Processed
    /\ last.note.unitSpherical = None
    /\ last.note.spherical = None
    /\ last.note.unitCartesian = Some(<<0, 2, 0>>)
    /\ last.note.cartesian # None
    /\ last.note.array = Some(<<Spherical(Deg(90), Deg(90))>>)

\* the primitives the synchronizer's entries hold
Held == { hash[e].primitive : e \in { o \in Ids : hash[o].defined } }

\* C25: in every state of a synchronizer, every tracked entity has at most one
\* primitive, the primitives it added to the registry and has not removed are
\* those its entries hold, and every primitive it created and no longer holds
\* was removed from the registry and destroyed, once.
C25_Ownership ==
    /\ primitives = Held
    /\ \A e \in Ids :
         /\ Cardinality({ pid \in Created(e) : prims[pid].state = "live" }) <= 1
         /\ hash[e].defined => (e \in entitiesToVisualize /\ hash[e].primitive \in Created(e))
    /\ \A pid \in PrimIds :
         prims[pid].state # "none"
         => IF pid \in Held
            THEN prims[pid].state = "live" /\ prims[pid].destroyCalls = 0
            ELSE prims[pid].state = "destroyed" /\ prims[pid].destroyCalls = 1

C25_Witness ==
    \E e \in Ids :
        /\ prims[<<e, 1>>].state = "destroyed"
        /\ prims[<<e, 1>>].destroyCalls = 1
        /\ hash[e].defined
        /\ hash[e].primitive = <<e, 2>>
        /\ primitives = Held
        /\ Cardinality(primitives) = Cardinality(Ids)

\* C29: retiring an entry calls the primitive's destroy exactly once, whether the
\* registry's remove destroys what it removes or not, and removePrimitive for an
\* entity without an entry (after a removal, or at teardown after it) changes
\* nothing of that entity's primitives.
C29_DestroyedOnce ==
    [][\A e \in Ids :
         /\ (hash[e].defined /\ ~hash'[e].defined)
            => /\ prims'[hash[e].primitive].state = "destroyed"
               /\ prims[hash[e].primitive].destroyCalls = 0
               /\ prims'[hash[e].primitive].destroyCalls = 1
               /\ hash[e].primitive \notin primitives'
         /\ (/\ ~hash[e].defined
             /\ \/ last'.op = "destroy"
                \/ last'.op = "notify" /\ e \in last'.note.removed)
            => /\ ~hash'[e].defined
               /\ \A pid \in PidsOf(e) : prims'[pid] = prims[pid]
         /\ \A pid \in PidsOf(e) : prims'[pid].destroyCalls <= 1]_vars

C29_Witness ==
    \E e \in Ids :
        /\ last.op = "destroy"
        /\ destroyPrimitives
        /\ e \notin entitiesToVisualize
        /\ prims[<<e, 1>>].state = "destroyed"
        /\ prims[<<e, 1>>].destroyCalls = 1
        /\ entitiesToVisualize # {}

\* C26: in a visible tick the model matrix is rewritten, from the resolved
\* position and orientation, when one of them differs by value from the entry's
\* snapshot, and left as it is when neither does; after the tick the snapshot
\* holds the values the tick resolved, in objects of its own, which resolving
\* into the scratch objects for another entity or tick does not change.
C26_TransformDiffing ==
    [][last'.op = "tick"
       => \A e \in entitiesToVisualize :
            Show(kind, last'.in[e])
            => LET i == last'.in[e]
                   pid == hash'[e].primitive
               IN  /\ hash'[e].defined
                   /\ hash'[e].position = i.position
                   /\ hash'[e].orientation = i.orientation
                   /\ ~hash'[e].scratch
                   /\ IF /\ hash[e].defined
                         /\ hash[e].position = i.position
                         /\ hash[e].orientation = i.orientation
                      THEN /\ pid = hash[e].primitive
                           /\ prims'[pid].modelMatrix = prims[pid].modelMatrix
                      ELSE prims'[pid].modelMatrix =
                               fromRotationTranslation(i.orientation, i.position)]_vars

C26_Witness ==
    /\ last.op = "tick"
    /\ Focus \in entitiesToVisualize
    /\ last.in[Focus].orientation = "q2"
    /\ hash[Focus].position = "p1"
    /\ hash[Focus].orientation = "q2"
    /\ PrimOf(Focus).modelMatrix = fromRotationTranslation("q2", "p1")
    /\ PrimOf(Focus).show

\* C27: a mesh of N >= 3 directions has N triangles of 3 vertices of their own;
\* triangle j (0 <= j < N) is the local origin, vertex j and vertex (j - 1) mod N,
\* the wrap-around pair (vertex 0, vertex N - 1) included, and its three
\* vertices carry one normal of length 1, the cross product of vertex j with
\* vertex (j - 1) mod N, normalized: perpendicular to both and on the side of
\* that product.
C27_FanTriangulation ==
    \A m \in 1..Len(gpu.vertexArrays) :
        LET mesh == gpu.vertexArrays[m]
            N == Len(mesh.positions)
            at(j) == mesh.positions[j + 1]
            vertex(j, c) == mesh.vertices[3 * j + c]
        IN  /\ N >= 3
            /\ mesh.triangles = N
            /\ Len(mesh.vertices) = 3 * N
            /\ \A j \in 0..(N - 1) :
                 LET n == vertex(j, 1).normal
                     a == Cartesian(at(j))
                     b == Cartesian(at((j + N - 1) % N))
                 IN  /\ vertex(j, 1).position = ZERO
                     /\ vertex(j, 2).position = at(j)
                     /\ vertex(j, 3).position = at((j + N - 1) % N)
                     /\ vertex(j, 2).normal = n /\ vertex(j, 3).normal = n
                     /\ n = normalized(cross(a, b))
                     /\ Near(dotProduct(n, n) \div 1000, 1000)
                     /\ Near(dotProduct(n, a) \div 1000, 0)
                     /\ Near(dotProduct(n, b) \div 1000, 0)
                     /\ dotProduct(n, cross(a, b)) > 0

C27_Witness ==
    /\ last.op = "update"
    /\ gpu.vertexArray # 0
    /\ gpu.commandList # <<>>
    /\ LET mesh == gpu.vertexArrays[gpu.vertexArray]
       IN  /\ mesh.positions = computePositions([CustomSensorVolume EXCEPT !.directions = Kite])
           /\ Len(mesh.vertices) = 9
           /\ mesh.vertices[2].position.direction = Kite[1]
           /\ mesh.vertices[3].position.direction = Kite[3]
           /\ mesh.vertices[6].position.direction = Kite[1]

\* C28: for a polygon of N >= 3 directions the position loop writes every index
\* 0..N-1 exactly once, vertex j is direction j extended by what its cyclic
\* predecessor (j - 1) mod N and successor (j + 1) mod N require, and the points
\* of the bounding sphere are the origin and exactly those N vertices.
C28_NeighbourIndexing ==
    \A m \in 1..Len(gpu.vertexArrays) :
        LET mesh == gpu.vertexArrays[m]
            N == Len(mesh.positions)
            at(j) == mesh.positions[j + 1]
        IN  /\ N >= 3
            /\ Len(mesh.written) = N
            /\ \A j \in 0..(N - 1) :
                 /\ Cardinality({ n \in 1..N : mesh.written[n] = j }) = 1
                 /\ at(j) # ZERO
                 /\ LET before == Clearance(at((j + N - 1) % N).direction, at(j).direction)
                        after == Clearance(at(j).direction, at((j + 1) % N).direction)
                    IN  at(j).extension = IF before > after THEN before ELSE after
            /\ m = gpu.vertexArray
               => LET around == gpu.boundingSphere[1].around
                  IN  /\ Len(around) = N + 1
                      /\ around[1] = ZERO
                      /\ \A j \in 0..(N - 1) :
                           Cardinality({ n \in 2..(N + 1) : around[n] = at(j) }) = 1

C28_Witness ==
    /\ last.op = "update"
    /\ gpu.vertexArray # 0
    /\ LET mesh == gpu.vertexArrays[gpu.vertexArray]
       IN  /\ mesh.written = <<3, 0, 1, 2>>
           /\ mesh.radius = 10
           /\ gpu.boundingSphere[1].around[2] = mesh.positions[4]
           /\ gpu.boundingSphere[1].around[5] = mesh.positions[3]

\* C30: a boundary change is never lost: the dirty flag set by a boundary
\* assignment stays set through every update that returns early (primitive hidden,
\* or scene mode other than 3D) and through every other call, it is cleared only
\* by an update that passes that gate, and the first update that passes it clears
\* the flag and builds the mesh of the new boundary.
C30_BoundaryChangeNeverLost ==
    [][(prims[Solo].directionsDirty /\ prims'[Solo].state = "live")
       => LET p == prims[Solo]
              passesGate == last'.op = "update" /\ p.show /\ prims'[Solo].mode = "SCENE3D"
          IN  IF passesGate
              THEN /\ ~prims'[Solo].directionsDirty
                   /\ Len(p.directions) >= 3
                      => /\ gpu'.vertexArray # 0
                         /\ gpu'.vertexArray # gpu.vertexArray
                         /\ gpu'.vertexArrays[gpu'.vertexArray].positions = computePositions(p)
              ELSE /\ prims'[Solo].directionsDirty
                   /\ gpu'.vertexArray = gpu.vertexArray
                   /\ gpu'.vertexArrays = gpu.vertexArrays]_vars

\* C31: in every reachable state the entities that have a SyncEntry are tracked:
\* a call that drops an entity from the tracked set leaves it without an entry,
\* and an entry is created only for an entity that was tracked when the call began.
C31_EntriesAreTracked ==
    /\ [](\A e \in Ids : hash[e].defined => e \in entitiesToVisualize)
    /\ [][\A e \in Ids :
            /\ (e \in entitiesToVisualize /\ e \notin entitiesToVisualize')
               => ~hash'[e].defined
            /\ (~hash[e].defined /\ hash'[e].defined)
               => e \in entitiesToVisualize]_vars

\* an entity that had an entry has been dropped by a notification, while the other
\* entity keeps its entry
C31_Witness ==
    /\ last.op = "notify"
    /\ \E e \in Ids :
         /\ e \in last.note.removed \cup last.note.changed
         /\ e \notin entitiesToVisualize
         /\ ~hash[e].defined
         /\ prims[<<e, 1>>].state = "destroyed"
         /\ \E o \in Ids \ {e} : hash[o].defined /\ o \in entitiesToVisualize

\* C32: within one notification the lists are applied in the order added,
\* changed, removed: an entity in the removed list is untracked and without an
\* entry afterwards, whatever other list names it, and an entity in the added and
\* changed lists and not in the removed one ends tracked exactly when it is
\* complete (and, when it is not, without an entry).
C32_ListOrder ==
    last.op = "notify"
    => \A e \in Ids :
         /\ e \in last.note.removed
            => e \notin entitiesToVisualize /\ ~hash[e].defined
         /\ (e \in last.note.added \cap last.note.changed /\ e \notin last.note.removed)
            => /\ e \in entitiesToVisualize <=> Complete(last.note.def[e])
               /\ ~Complete(last.note.def[e]) => ~hash[e].defined

\* a complete entity named in all three lists, whose entry the notification
\* retired, and before it one named as added and changed that stayed tracked
C32_Witness ==
    /\ last.op = "notify"
    /\ \E e \in Ids :
         /\ e \in last.note.added /\ e \in last.note.changed /\ e \in last.note.removed
         /\ Complete(last.note.def[e])
         /\ e \notin entitiesToVisualize
         /\ prims[<<e, 1>>].state = "destroyed"

\* C33: constructing a synchronizer treats every entity already in the collection
\* as added: right after construction the tracked set is exactly the existing
\* entities that are complete, no primitive has been created (no entry, no
\* primitive object, an empty registry), and the synchronizer's listener is
\* among those the collection notifies.
C33_ConstructionAdds ==
    last.op = "new"
    => /\ entitiesToVisualize = { e \in last.note.added : Complete(last.note.def[e]) }
       /\ \A e \in Ids : ~hash[e].defined
       /\ \A pid \in PrimIds : prims[pid].state = "none"
       /\ primitives = {}
       /\ Listener \in listeners

\* a collection holding a complete and an incomplete entity
C33_Witness ==
    /\ last.op = "new"
    /\ \E e \in last.note.added : Complete(last.note.def[e]) /\ e \in entitiesToVisualize
    /\ \E e \in last.note.added : ~Complete(last.note.def[e]) /\ e \notin entitiesToVisualize

\* C34: an entry created for an entity, also one recreated after the entity's
\* previous entry was retired, starts with an empty snapshot: the tick that
\* creates it writes the model transform from the resolved position and
\* orientation and, for the conic kind, samples the boundary, whatever was last
\* applied to a retired primitive; the snapshot then holds the resolved values.
C34_FreshSnapshot ==
    [][\A e \in Ids :
          (last'.op = "tick" /\ ~hash[e].defined /\ hash'[e].defined)
          => LET i == last'.in[e]
                 data == hash'[e]
                 primitive == prims'[data.primitive]
             IN  /\ primitive.modelMatrix = fromRotationTranslation(i.orientation, i.position)
                 /\ data.position = i.position
                 /\ data.orientation = i.orientation
                 /\ kind = "conic"
                    => /\ primitive.directionsDirty
                       /\ primitive.directions =
                              computeDirections(<<>>, i.shape.minimumClockAngle,
                                                i.shape.maximumClockAngle,
                                                i.shape.innerHalfAngle, i.shape.outerHalfAngle)
                       /\ data.minimumClockAngle = Some(i.shape.minimumClockAngle)
                       /\ data.maximumClockAngle = Some(i.shape.maximumClockAngle)
                       /\ data.innerHalfAngle = Some(i.shape.innerHalfAngle)
                       /\ data.outerHalfAngle = Some(i.shape.outerHalfAngle)]_vars

\* a conic entity whose first primitive was retired has a second one, which a
\* tick gave the transform and the boundary of the same resolved values
C34_Witness ==
    /\ kind = "conic"
    /\ last.op = "tick"
    /\ \E e \in Ids :
         /\ prims[<<e, 1>>].state = "destroyed"
         /\ hash[e].defined
         /\ hash[e].primitive = <<e, 2>>
         /\ last.in[e] = BaseInput("conic")
         /\ prims[<<e, 2>>].modelMatrix = fromRotationTranslation("q1", "p1")
         /\ Len(prims[<<e, 2>>].directions) >= 3
         /\ hash[e].position = "p1"

\* C35: an update of a primitive that is hidden, or in a scene mode other than
\* 3D, appends no command and changes nothing of the primitive but the recorded
\* scene mode: render state, mesh, bounding sphere, cached transform and
\* material, shader programs and pick id are as before, and so is the dirty flag.
C35_EarlyReturnIsInert ==
    [][(last'.op = "update" /\ (~prims[Solo].show \/ prims'[Solo].mode # "SCENE3D"))
       => /\ gpu'.commandList = <<>>
          /\ [gpu' EXCEPT !.commandList = gpu.commandList] = gpu
          /\ [prims'[Solo] EXCEPT !.mode = prims[Solo].mode] = prims[Solo]]_vars

\* a shown primitive with a mesh and a changed boundary has been updated in 2D
C35_Witness ==
    /\ last.op = "update"
    /\ prims[Solo].show
    /\ prims[Solo].mode = "SCENE2D"
    /\ prims[Solo].directionsDirty
    /\ gpu.vertexArray # 0
    /\ gpu.pickId # 0
    /\ gpu.commandList = <<>>

\* C36: the commands of one update past the gate.  With a mesh: on a render pass
\* the back-face and then the front-face command when the material is
\* translucent, the front-face command alone when it is opaque; on a pick pass
\* the pick command, after the colour commands; with neither pass nothing.  Each
\* command draws the mesh the primitive holds.  Without a mesh: nothing.
C36_CommandEmission ==
    (last.op = "update" /\ last.frameState # None /\ ~last.threw)
    => LET frameState == last.frameState[1]
           p == prims[Solo]
           colour == IF ~frameState.passes.render THEN <<>>
                     ELSE IF isTranslucent(p.lateralSurfaceMaterial)
                          THEN <<"back", "front">>
                          ELSE <<"front">>
           pick == IF frameState.passes.pick THEN <<"pick">> ELSE <<>>
       IN  IF ~p.show \/ frameState.mode # "SCENE3D" \/ gpu.vertexArray = 0
           THEN gpu.commandList = <<>>
           ELSE gpu.commandList =
                    [n \in 1..Len(colour \o pick) |->
                        [command |-> (colour \o pick)[n], vertexArray |-> gpu.vertexArray]]

\* a translucent primitive with a mesh, updated with both passes
C36_Witness ==
    /\ last.op = "update"
    /\ last.frameState = Some([mode |-> "SCENE3D", passes |-> [render |-> TRUE, pick |-> TRUE]])
    /\ isTranslucent(prims[Solo].lateralSurfaceMaterial)
    /\ Len(gpu.commandList) = 3
    /\ gpu.commandList[1].command = "back"
    /\ gpu.commandList[3].command = "pick"

\* C37: outside the full circle, the conic sampler leaves at least 3 directions
\* when minClock < maxClock and exactly 2 when minClock >= maxClock, whatever the
\* array held before, and raises no error; a boundary of 2 directions is one an
\* update builds no mesh for.
C37_SampleCount ==
    (last.op = "computeDirections" /\ ~Sampled(<<0, TWO_PI>>))
    => LET shape == last.in[Focus].shape
           d == prims[Solo].directions
       IN  /\ ~last.threw
           /\ prims[Solo].directionsDirty
           /\ IF shape.minimumClockAngle < shape.maximumClockAngle
              THEN Len(d) >= 3
              ELSE Len(d) = 2

\* the clock limits crossed, with an inner half-angle: one sample at each limit
C37_Witness ==
    /\ Sampled(<<Deg(10), Deg(2)>>)
    /\ last.in[Focus].shape.innerHalfAngle = Deg(10)
    /\ prims[Solo].directions =
           << Spherical(Deg(2), last.in[Focus].shape.outerHalfAngle),
              Spherical(Deg(10), Deg(10)) >>

C39_BoundedResponse ==
    [][(/\ last.op = "tick"
        /\ Focus \in entitiesToVisualize
        /\ ShowConic(last.in[Focus])
        /\ Len(prims[Solo].directions) >= 3
        /\ hash[Focus].primitive = Solo
        /\ last'.op = "update"
        /\ last'.frameState[1].mode = "SCENE3D"
        /\ last'.frameState[1].passes.render)
       => /\ Solo \in primitives'
          /\ prims'[Solo].show
          /\ gpu'.vertexArray # 0
          /\ \E n \in 1..Len(gpu'.commandList) :
               gpu'.commandList[n] = [command |-> "front", vertexArray |-> gpu'.vertexArray]]_vars

====
